---- MODULE Spec2Model ----
(***************************************************************************)
(* A model of tcell_ebiten: the virtual terminal screen (ETCellScreen),    *)
(* the ebiten game bridge (ETCellGame) and the legacy combined type        *)
(* (etcell).  A call of a method is a sequence of steps of the calling     *)
(* goroutine: the call itself, the acquisition of grid_lock (when the      *)
(* method takes it), the method body, and every channel operation the body *)
(* makes.  Steps of different goroutines interleave.                       *)
(***************************************************************************)
EXTENDS Integers, Sequences, FiniteSets, TLC

VARIABLES
    grid_size,      \* et.grid_size: [X, Y], in cells
    grid,           \* et.grid: the flat cell slice; grid[n+1] is Go's et.grid[n]
    layout,         \* et.layout: [W, H], a rectangle with Min = (0,0)
    cell_size,      \* et.cell_size: [X, Y], in pixels
    grid_draw,      \* ETCellGame.grid_draw: the snapshot Draw renders from
    dst,            \* the cells the last Draw blitted into its target image
    event_channel,  \* the field et.event_channel: "nil" or "ch"
    chan_buf,       \* the buffer of the channel made by Init
    chan_closed,    \* whether that channel has been closed
    focused,        \* et.focused
    mouse_flags,    \* et.mouse_flags, as the set of flags that are set
    enable_focus,   \* et.enable_focus
    enable_paste,   \* et.enable_paste
    suspended,      \* et.suspended
    close_error,    \* et.close_error: "nil" or an error
    grid_lock,      \* holder of et.grid_lock: "none" or a goroutine
    pc,             \* where each goroutine is in its current call
    frame,          \* the current call of each goroutine: arguments and locals
    ret,            \* what the last completed call of each goroutine returned
    panicked,       \* "" or the run-time panic that stopped the program
    style_default,  \* et.style_default
    rune_fallback,  \* et.rune_fallback: the registered runes and their strings
    cursor,         \* et.cursor: [X, Y], in cells
    cursor_style,   \* et.cursor_style
    GeoM,           \* ETCellGame.GeoM: the caller's transform, a translation [tx, ty]
    face,           \* et.face: the runes it has glyphs for and its ascent
    dst_cursor,     \* the cursor the last Draw drew into its target image, if any
    ch_buf,         \* the buffer of the channel ch that was given to ChannelEvents
    ch_closed,      \* whether ch has been closed
    quit_closed,    \* whether the quit channel given to ChannelEvents has been closed
    Cache,          \* CacheFont.Cache of every font: the images cached for runes
    empty,          \* CacheFont.empty of every font: its empty image, or nil
    images,         \* the images that ebiten.NewImage has made so far
    StyleMap,       \* FaceWithStyle.StyleMap: the registered styles and their faces
    probe,          \* the Glyph request whose results are compared, and its results
    kbd,            \* the keyboard and the tick rate as ebiten reports them in this tick
    seqno           \* how many numbered events the application has made so far

scr == <<grid_size, grid, layout, cell_size, grid_draw, dst>>
chv == <<event_channel, chan_buf, chan_closed>>
flg == <<focused, mouse_flags, enable_focus, enable_paste, suspended, close_error>>
ctl == <<grid_lock, pc, frame, ret, panicked>>
rnd == <<style_default, rune_fallback, cursor, cursor_style, GeoM, face, dst_cursor>>
fwd == <<ch_buf, ch_closed, quit_closed>>
fnt == <<Cache, empty, images, StyleMap, probe>>
vars == <<grid_size, grid, layout, cell_size, grid_draw, dst,
          event_channel, chan_buf, chan_closed,
          focused, mouse_flags, enable_focus, enable_paste, suspended, close_error,
          grid_lock, pc, frame, ret, panicked,
          style_default, rune_fallback, cursor, cursor_style, GeoM, face, dst_cursor,
          ch_buf, ch_closed, quit_closed,
          Cache, empty, images, StyleMap, probe, kbd, seqno>>

----------------------------------------------------------------------------
(* Bounds of the model. *)

MaxCols == 2        \* widest grid of the cell-content specifications
MaxRows == 2        \* tallest grid of the cell-content specifications
MaxPosts == 130     \* numbered events the application posts
MaxQueued == 1      \* a call that may post starts with fewer events than this queued
MaxPix == 3         \* largest pixel width and height offered to Layout
MaxCell == 2        \* largest pixel width and height of a cell
MaxForward == 1     \* capacity of the channel ch that is given to ChannelEvents
MaxShift == 1       \* largest translation of the caller's transform, in pixels
MaxProbes == 2      \* requests of the compared kind that a run makes
MaxBeat == 2        \* last instant that the clock is read at, in half cycles
MaxHeld == 37       \* most ticks that a key is held down
MaxBacklog == 3     \* a tick starts with fewer events than this waiting to be polled
MaxKeys == 2        \* most keys that are down in one tick

(* Program constants. *)

QueueCap == 128     \* make(chan tcell.Event, 128)
blink_text_ms == 900    \* text blink cycle, in milliseconds
blink_cursor_ms == 750  \* cursor blink cycle, in milliseconds

----------------------------------------------------------------------------
(* Values. *)

\* The goroutines: the ebiten game loop, the terminal application's event loop,
\* and one more goroutine of the application.
Procs == {"host", "worker", "aux"}

\* tcell.StyleDefault is the zero Style.
StyleDefault == [fg |-> "default", bg |-> "default", attr |-> {}]
StyleA == [fg |-> "red", bg |-> "default", attr |-> {"bold"}]

\* The runes the application writes: 'A'.
Runes == {65}

\* Go's integer division truncates toward zero.
GoDiv(a, b) == IF a >= 0 THEN a \div b ELSE -((-a) \div b)

\* The nil *ebiten.Image, and the face's image for a rune it has no glyph for.
NilGlyph == [rune |-> 0, style |-> "nil"]
EmptyGlyph == [rune |-> 0, style |-> "empty"]

\* The zero color.RGBA, as <<R, G, B, A>>.
ZeroRGBA == <<0, 0, 0, 0>>

\* The zero value of the cell struct.
ZeroCell == [Rune |-> 0, Combining |-> <<>>, Style |-> StyleDefault, synced |-> FALSE,
             glyph |-> NilGlyph, combining |-> <<>>, point |-> [X |-> 0, Y |-> 0],
             fgColor |-> ZeroRGBA, bgColor |-> ZeroRGBA]

\* The cell without its combining runes.
NewCell_NoCombining(r, c, s) == [ZeroCell EXCEPT !.Rune = r, !.Style = s]

\* cell{Rune: r, Combining: c, Style: s}: every other field is zero.
NewCell(r, c, s) == [ZeroCell EXCEPT !.Rune = r, !.Combining = c, !.Style = s]

\* make([]cell, n)
MakeGrid(n) == [i \in 1..n |-> ZeroCell]

Event(kind, x, y) == [kind |-> kind, x |-> x, y |-> y]

\* The nil tcell.Event.
NilEvent == Event("nil", 0, 0)

NoFrame == [op |-> "", x |-> 0, y |-> 0, r |-> 0, comb |-> <<>>, st |-> StyleDefault,
            evs |-> <<>>, ch |-> "nil", sent |-> 0, via |-> "", sw |-> 0, sh |-> 0,
            now |-> 0]

NoRet == [op |-> "", x |-> 0, y |-> 0, r |-> 0, comb |-> <<>>, st |-> StyleDefault,
          w |-> 0, err |-> "nil", n |-> 0, ev |-> NilEvent, sw |-> 0, sh |-> 0]

\* A call of op with the arguments (x, y, r, comb, st) and the events evs.
CallOf(op, x, y, r, comb, st, evs) ==
    [NoFrame EXCEPT !.op = op, !.x = x, !.y = y, !.r = r, !.comb = comb, !.st = st,
                    !.evs = evs]

\* The methods that start with et.grid_lock.Lock().
LockedOps == {"SetContent", "GetContent", "Show", "Sync", "PostEvent", "Update",
              "Draw", "Layout", "Suspend", "Resume", "etcell.Layout.resize",
              "RegisterRuneFallback"}

----------------------------------------------------------------------------
(* The font package.  The faces are the CacheFonts "cf" and "bf", whose    *)
(* glyphs were set with SetGlyph, the MonoFont "mf", which draws its       *)
(* glyphs from a font file, the FaceWithBackup "backup" of "cf" backed by  *)
(* "bf", and the FaceWithStyle "styled" over StyleMap.  An image is named  *)
(* by the face and the rune it was made for (rune 0: the empty image) and  *)
(* by how many images had been made for them before it, so that two calls  *)
(* of ebiten.NewImage never return the same reference.                     *)

FontStyles == {"Normal", "Bold", "Italic", "BoldItalic"}

Leaves == {"cf", "bf", "mf"}

\* 'A', 'B', the full block, and a rune that no face has.
FontRunes == {65, 66, 9608, 945}

\* The runes whose glyphs were set into each CacheFont, and the runes that the
\* font file of the MonoFont has.
Backend(f) ==
    CASE f = "cf" -> {65, 66}
      [] f = "bf" -> {65, 9608}
      [] f = "mf" -> {65, 9608}

\* The nil *ebiten.Image.
NilImage == [face |-> "", rune |-> 0, n |-> 0]

\* The font package's state as one value.
FontState == [Cache |-> Cache, empty |-> empty, images |-> images]

\* ebiten.NewImage, called by face f for rune r: the image and the state after.
NewImage(fs, f, r) ==
    LET img == [face |-> f, rune |-> r,
                n |-> Cardinality({i \in fs.images : i.face = f /\ i.rune = r}) + 1]
    IN  [fs |-> [fs EXCEPT !.images = @ \cup {img}], glyph |-> img]

\* The map m with m[k] = v.
MapPut(m, k, v) == [x \in DOMAIN m \cup {k} |-> IF x = k THEN v ELSE m[x]]

\* The glyph is not stored.
SetGlyph_Dropped(fs, f, r, glyph) == fs

\* CacheFont.SetGlyph: mf.Cache[character] = glyph.  The images the model passes
\* have the size of the font, or are nil.
SetGlyph(fs, f, r, glyph) == [fs EXCEPT !.Cache[f] = MapPut(@, r, glyph)]

\* CacheFont.Empty: the empty image, made on the first request for it.
Empty(fs, f) ==
    IF fs.empty[f] # NilImage
    THEN [fs |-> fs, glyph |-> fs.empty[f]]
    ELSE LET new == NewImage(fs, f, 0)
         IN  [fs |-> [new.fs EXCEPT !.empty[f] = new.glyph], glyph |-> new.glyph]

\* CacheFont.HasGlyph
CacheFont_HasGlyph(fs, f, r) == r \in DOMAIN fs.Cache[f] /\ fs.Cache[f][r] # NilImage

\* CacheFont.Glyph: the state after, the glyph and is_empty.  A rune that is not
\* in the cache is entered with the nil image.
CacheFont_Glyph(fs, f, r, style) ==
    LET fs1 == Empty(fs, f).fs
        ok == r \in DOMAIN fs1.Cache[f]
        glyph == IF ok THEN fs1.Cache[f][r] ELSE NilImage
        fs2 == IF ok THEN fs1 ELSE [fs1 EXCEPT !.Cache[f] = MapPut(@, r, NilImage)]
    IN  IF glyph = NilImage
        THEN [fs |-> fs2, glyph |-> fs2.empty[f], is_empty |-> TRUE]
        ELSE [fs |-> fs2, glyph |-> glyph, is_empty |-> FALSE]

\* MonoFont.HasGlyph: the cached answer, or else what the font file has.
MonoFont_HasGlyph(fs, f, r) ==
    IF r \in DOMAIN fs.Cache[f] THEN fs.Cache[f][r] # NilImage ELSE r \in Backend(f)

\* MonoFont.Glyph: a rune that is not in the cache gets a new image, or nil when
\* the font file does not have it, and is entered in the cache.
MonoFont_Glyph(fs, f, r, style) ==
    LET ok == r \in DOMAIN fs.Cache[f]
        new == IF ~ok /\ MonoFont_HasGlyph(fs, f, r)
               THEN NewImage(fs, f, r)
               ELSE [fs |-> fs, glyph |-> NilImage]
        glyph == IF ok THEN fs.Cache[f][r] ELSE new.glyph
        fs1 == IF ok THEN fs ELSE SetGlyph(new.fs, f, r, glyph)
    IN  IF glyph = NilImage
        THEN [fs |-> Empty(fs1, f).fs, glyph |-> Empty(fs1, f).glyph, is_empty |-> TRUE]
        ELSE [fs |-> fs1, glyph |-> glyph, is_empty |-> FALSE]

\* HasGlyph and Glyph of the face f, by its type.
HasGlyph(fs, f, r) ==
    IF f = "mf" THEN MonoFont_HasGlyph(fs, f, r) ELSE CacheFont_HasGlyph(fs, f, r)

Face_Glyph(fs, f, r, style) ==
    IF f = "mf" THEN MonoFont_Glyph(fs, f, r, style) ELSE CacheFont_Glyph(fs, f, r, style)

\* The backup font is never asked.
FaceWithBackup_Glyph_PrimaryOnly(fs, r, style) == Face_Glyph(fs, "cf", r, style)

\* FaceWithBackup.Glyph: the glyph of fm.Face unless it is empty, and then
\* whatever fm.Backup returns.
FaceWithBackup_Glyph(fs, r, style) ==
    LET first == Face_Glyph(fs, "cf", r, style)
    IN  IF ~first.is_empty THEN first ELSE Face_Glyph(first.fs, "bf", r, style)

\* fm.StyleMap[style]: the face and ok.
Lookup(style) ==
    IF style \in DOMAIN StyleMap THEN [face |-> StyleMap[style], ok |-> TRUE]
    ELSE [face |-> "", ok |-> FALSE]

\* Bold italic falls back to bold before italic.
forStyle_BoldFirst(style) ==
    CASE style = "Normal" -> Lookup("Normal")
      [] style = "Italic" ->
            IF Lookup("Italic").ok THEN Lookup("Italic") ELSE Lookup("Normal")
      [] style = "BoldItalic" ->
            IF Lookup("BoldItalic").ok THEN Lookup("BoldItalic")
            ELSE IF Lookup("Bold").ok THEN Lookup("Bold")
            ELSE IF Lookup("Italic").ok THEN Lookup("Italic")
            ELSE Lookup("Normal")
      [] style = "Bold" ->
            IF Lookup("Bold").ok THEN Lookup("Bold") ELSE Lookup("Normal")
      [] OTHER -> [face |-> "", ok |-> FALSE]

\* FaceWithStyle.forStyle, up to its panic: the face chosen by the switch, and ok.
forStyle(style) ==
    CASE style = "Normal" -> Lookup("Normal")
      [] style = "Italic" ->
            IF Lookup("Italic").ok THEN Lookup("Italic") ELSE Lookup("Normal")
      [] style = "BoldItalic" ->
            IF Lookup("BoldItalic").ok THEN Lookup("BoldItalic")
            ELSE IF Lookup("Italic").ok THEN Lookup("Italic")
            ELSE IF Lookup("Bold").ok THEN Lookup("Bold")
            ELSE Lookup("Normal")
      [] style = "Bold" ->
            IF Lookup("Bold").ok THEN Lookup("Bold") ELSE Lookup("Normal")
      [] OTHER -> [face |-> "", ok |-> FALSE]

\* The glyphs set into the CacheFonts before the first request, each an image of
\* its own.
SetGlyphs(f) ==
    IF f = "mf" THEN <<>> ELSE [r \in Backend(f) |-> [face |-> f, rune |-> r, n |-> 1]]

\* No request is compared.
NoProbe == [face |-> "", r |-> 0, style |-> "", calls |-> 0, got |-> {}]

\* The fonts before the first request, with the style map sm and the probe pr.
InitFonts(sm, pr) ==
    /\ Cache = [f \in Leaves |-> SetGlyphs(f)]
    /\ empty = [f \in Leaves |-> NilImage]
    /\ images = UNION {{SetGlyphs(f)[r] : r \in DOMAIN SetGlyphs(f)} : f \in Leaves}
    /\ StyleMap = sm
    /\ probe = pr

----------------------------------------------------------------------------
(* The state after construction: a screen whose grid has been sized to     *)
(* cols x rows cells of cw x ch pixels and whose Init has run.             *)

\* A face with glyphs for the space and for 'A', whose ascent is the cell height.
FaceOf(rs, ch) == [runes |-> rs, HAscent |-> ch]

\* No key is held, no modifier, no character typed; the tick rate is not known.
NoKbd == [pressed |-> <<>>, mods |-> {}, chars |-> <<>>, tps |-> 0]

\* The identity transform.
GeoMIdentity == [tx |-> 0, ty |-> 0]

\* The fields of the screen as above, drawn with the face fc under the transform
\* gm.
InitFields(cols, rows, cw, ch, fc, gm) ==
    /\ grid_size = [X |-> cols, Y |-> rows]
    /\ grid = [i \in 1..(cols * rows) |-> NewCell(32, <<>>, StyleDefault)]
    /\ layout = [W |-> cols * cw, H |-> rows * ch]
    /\ cell_size = [X |-> cw, Y |-> ch]
    /\ grid_draw = <<>>
    /\ dst = <<>>
    /\ event_channel = "ch"
    /\ chan_buf = <<>>
    /\ chan_closed = FALSE
    /\ focused = FALSE
    /\ mouse_flags = {}
    /\ enable_focus = FALSE
    /\ enable_paste = FALSE
    /\ suspended = FALSE
    /\ close_error = "nil"
    /\ grid_lock = "none"
    /\ pc = [p \in Procs |-> "idle"]
    /\ frame = [p \in Procs |-> NoFrame]
    /\ ret = [p \in Procs |-> NoRet]
    /\ panicked = ""
    /\ style_default = StyleDefault
    /\ rune_fallback = <<>>
    /\ cursor = [X |-> 0, Y |-> 0]
    /\ cursor_style = "Default"
    /\ GeoM = gm
    /\ face = fc
    /\ dst_cursor = {}
    /\ ch_buf = <<>>
    /\ ch_closed = FALSE
    /\ quit_closed = FALSE
    /\ kbd = NoKbd
    /\ seqno = 0

\* The screen, with fonts that are not asked for anything.
InitDisplay(cols, rows, cw, ch, fc, gm) ==
    /\ InitFields(cols, rows, cw, ch, fc, gm)
    /\ InitFonts(<<>>, NoProbe)

InitScreen(cols, rows, cw, ch) ==
    InitDisplay(cols, rows, cw, ch, FaceOf({32, 65}, ch), GeoMIdentity)

----------------------------------------------------------------------------
(* Steps common to every call. *)

At(p, label) == panicked = "" /\ pc[p] = label

In(p, op) == At(p, "body") /\ frame[p].op = op

\* A goroutine that is idle calls a method.
Call(p, f) ==
    /\ At(p, "idle")
    /\ pc' = [pc EXCEPT ![p] = IF f.op \in LockedOps THEN "lock" ELSE "body"]
    /\ frame' = [frame EXCEPT ![p] = f]
    /\ ret' = [ret EXCEPT ![p] = NoRet]
    /\ UNCHANGED <<scr, chv, flg, grid_lock, panicked, rnd, fwd, fnt>>

\* A call that does not number an event.
CallPlain(p, f) == Call(p, f) /\ UNCHANGED <<kbd, seqno>>

\* et.grid_lock.Lock(): waits until the lock is free.
Lock(p) ==
    /\ At(p, "lock")
    /\ grid_lock = "none"
    /\ grid_lock' = p
    /\ pc' = [pc EXCEPT ![p] = "body"]
    /\ UNCHANGED <<scr, chv, flg, frame, ret, panicked, rnd, fwd, fnt, kbd, seqno>>

\* The call returns r; a deferred Unlock releases the lock.
Return(p, r) ==
    /\ pc' = [pc EXCEPT ![p] = "idle"]
    /\ frame' = [frame EXCEPT ![p] = NoFrame]
    /\ ret' = [ret EXCEPT ![p] = r]
    /\ grid_lock' = IF grid_lock = p THEN "none" ELSE grid_lock
    /\ panicked' = panicked

\* A run-time panic stops the program.
Panic(p, msg) ==
    /\ panicked' = msg
    /\ pc' = [pc EXCEPT ![p] = "panic"]
    /\ UNCHANGED <<frame, ret, grid_lock>>

----------------------------------------------------------------------------
(* Cell content. *)

\* n := y*et.grid_size.X + x
CellIndex(x, y) == y * grid_size.X + x

\* The guards of GetContent and SetContent: the call returns early.
OutOfRange(x, y) == x >= grid_size.X \/ y >= grid_size.Y

\* Go's slice index check: et.grid[n] panics unless 0 <= n < len(et.grid).
IndexOk(n) == 0 <= n /\ n < Len(grid)

SetContent(p) ==
    /\ In(p, "SetContent")
    /\ LET f == frame[p]
           n == CellIndex(f.x, f.y)
       IN  IF OutOfRange(f.x, f.y)
           THEN /\ Return(p, [NoRet EXCEPT !.op = "SetContent", !.x = f.x, !.y = f.y])
                /\ UNCHANGED grid
           ELSE IF ~IndexOk(n)
           THEN /\ Panic(p, "index out of range")
                /\ UNCHANGED grid
           ELSE /\ grid' = [grid EXCEPT ![n + 1] = NewCell(f.r, f.comb, f.st)]
                /\ Return(p, [NoRet EXCEPT !.op = "SetContent", !.x = f.x, !.y = f.y])
    /\ UNCHANGED <<grid_size, layout, cell_size, grid_draw, dst, chv, flg, rnd, fwd, fnt, kbd, seqno>>

GetContent(p) ==
    /\ In(p, "GetContent")
    /\ LET f == frame[p]
           n == CellIndex(f.x, f.y)
       IN  IF OutOfRange(f.x, f.y)
           THEN Return(p, [NoRet EXCEPT !.op = "GetContent", !.x = f.x, !.y = f.y])
           ELSE IF ~IndexOk(n)
           THEN Panic(p, "index out of range")
           ELSE Return(p, [NoRet EXCEPT !.op = "GetContent", !.x = f.x, !.y = f.y,
                                        !.r = grid[n + 1].Rune,
                                        !.comb = grid[n + 1].Combining,
                                        !.st = grid[n + 1].Style,
                                        !.w = 1])
    /\ UNCHANGED <<scr, chv, flg, rnd, fwd, fnt, kbd, seqno>>

----------------------------------------------------------------------------
(* The event queue. *)

\* The switch without its focus case.
Filtered_NoFocusCase(ev) ==
    \/ ev.kind = "paste" /\ ~enable_paste
    \/ ev.kind = "mouse" /\ mouse_flags = {}

\* The switch of postEvent: the event is dropped when its category is disabled.
Filtered(ev) ==
    \/ ev.kind = "focus" /\ ~enable_focus
    \/ ev.kind = "paste" /\ ~enable_paste
    \/ ev.kind = "mouse" /\ mouse_flags = {}

\* The helper or the caller is done with the event at the head of frame[p].evs,
\* having enqueued k events for it: it goes on with the next event, or returns.
Posted(p, k) ==
    LET f == frame[p]
        rest == Tail(f.evs)
    IN  IF rest = <<>>
        THEN Return(p, [NoRet EXCEPT !.op = f.op, !.x = f.x, !.y = f.y,
                                     !.sw = f.sw, !.sh = f.sh,
                                     !.n = f.sent + k, !.ev = Head(f.evs)])
        ELSE /\ pc' = [pc EXCEPT ![p] = "post"]
             /\ frame' = [frame EXCEPT ![p].evs = rest, ![p].sent = f.sent + k]
             /\ UNCHANGED <<ret, grid_lock, panicked>>

\* A method body that leaves the events f.evs to post: it posts them, or returns
\* when there is none.
Finish(p, f) ==
    IF f.evs = <<>>
    THEN Return(p, [NoRet EXCEPT !.op = f.op, !.x = f.x, !.y = f.y,
                                 !.sw = f.sw, !.sh = f.sh, !.n = 0])
    ELSE /\ pc' = [pc EXCEPT ![p] = "post"]
         /\ frame' = [frame EXCEPT ![p] = f]
         /\ UNCHANGED <<ret, grid_lock, panicked>>

\* ETCellScreen.postEvent up to its send: the nil check and the switch.
postEvent(p) ==
    /\ At(p, "post")
    /\ LET ev == Head(frame[p].evs)
       IN  IF event_channel = "nil" \/ Filtered(ev)
           THEN Posted(p, 0)
           ELSE /\ pc' = [pc EXCEPT ![p] = "send"]
                /\ frame' = [frame EXCEPT ![p].ch = event_channel]
                /\ UNCHANGED <<ret, grid_lock, panicked>>
    /\ UNCHANGED <<scr, chv, flg, rnd, fwd, fnt, kbd, seqno>>

\* The event put in front of the buffered ones.
Enqueue_AtFront(buf, ev) == <<ev>> \o buf

\* The buffer of the channel after a send of ev: ev is behind the buffered events.
Enqueue(buf, ev) == Append(buf, ev)

\* The send statement et.event_channel <- ev.  The channel it sends on is the
\* field as the nil check read it or as it is now: Fini writes the field without
\* synchronization.  A send on a closed channel panics; a send on a full channel
\* or on a nil channel waits.
chansend(p) ==
    /\ At(p, "send")
    /\ \E c \in {frame[p].ch, event_channel} :
          /\ c = "ch"
          /\ chan_closed \/ Len(chan_buf) < QueueCap
          /\ IF chan_closed
             THEN /\ Panic(p, "send on closed channel")
                  /\ UNCHANGED chan_buf
             ELSE /\ chan_buf' = Enqueue(chan_buf, Head(frame[p].evs))
                  /\ Posted(p, 1)
    /\ UNCHANGED <<scr, event_channel, chan_closed, flg, rnd, fwd, fnt, kbd, seqno>>

\* ETCellScreen.PostEvent, with grid_lock held: err = et.postEvent(ev).
PostEvent(p) ==
    /\ In(p, "PostEvent")
    /\ pc' = [pc EXCEPT ![p] = "post"]
    /\ UNCHANGED <<scr, chv, flg, grid_lock, frame, ret, panicked, rnd, fwd, fnt, kbd, seqno>>

\* etcell.PostEvent: the switch and then the send, with no lock and no nil check.
etcell_PostEvent(p) ==
    /\ In(p, "etcell.PostEvent")
    /\ IF Filtered(Head(frame[p].evs))
       THEN Posted(p, 0)
       ELSE /\ pc' = [pc EXCEPT ![p] = "send"]
            /\ frame' = [frame EXCEPT ![p].ch = event_channel]
            /\ UNCHANGED <<ret, grid_lock, panicked>>
    /\ UNCHANGED <<scr, chv, flg, rnd, fwd, fnt, kbd, seqno>>

\* PollEvent evaluates the channel operand of its receive: it reads the field.
PollEvent(p) ==
    /\ In(p, "PollEvent")
    /\ pc' = [pc EXCEPT ![p] = "recv"]
    /\ frame' = [frame EXCEPT ![p].ch = event_channel]
    /\ UNCHANGED <<scr, chv, flg, grid_lock, ret, panicked, rnd, fwd, fnt, kbd, seqno>>

\* A receive can complete when the channel holds an event or is closed; a receive
\* from an open empty channel or from a nil channel waits.
RecvReady(p) == frame[p].ch = "ch" /\ (chan_buf # <<>> \/ chan_closed)

\* The receive ev = <-et.event_channel: the oldest event, or nil from a closed
\* and drained channel.
chanrecv(p) ==
    /\ At(p, "recv")
    /\ RecvReady(p)
    /\ IF chan_buf # <<>>
       THEN /\ chan_buf' = Tail(chan_buf)
            /\ Return(p, [NoRet EXCEPT !.op = "PollEvent", !.ev = Head(chan_buf)])
       ELSE /\ UNCHANGED chan_buf
            /\ Return(p, [NoRet EXCEPT !.op = "PollEvent", !.ev = NilEvent])
    /\ UNCHANGED <<scr, event_channel, chan_closed, flg, rnd, fwd, fnt, kbd, seqno>>

\* Fini, first statement: close(et.event_channel).  Closing a nil or a closed
\* channel panics.
Fini(p) ==
    /\ In(p, "Fini")
    /\ IF event_channel = "nil" \/ chan_closed
       THEN /\ Panic(p, "close of nil or closed channel")
            /\ UNCHANGED chan_closed
       ELSE /\ chan_closed' = TRUE
            /\ pc' = [pc EXCEPT ![p] = "fini"]
            /\ UNCHANGED <<frame, ret, grid_lock, panicked>>
    /\ UNCHANGED <<scr, event_channel, chan_buf, flg, rnd, fwd, fnt, kbd, seqno>>

\* Fini, second statement: et.event_channel = nil.
Fini_nil(p) ==
    /\ At(p, "fini")
    /\ event_channel' = "nil"
    /\ Return(p, [NoRet EXCEPT !.op = "Fini"])
    /\ UNCHANGED <<scr, chan_buf, chan_closed, flg, rnd, fwd, fnt, kbd, seqno>>

\* ChannelEvents starts its goroutine, which enters the loop.
ChannelEvents(p) ==
    /\ In(p, "ChannelEvents")
    /\ pc' = [pc EXCEPT ![p] = "select"]
    /\ UNCHANGED <<scr, chv, flg, grid_lock, frame, ret, panicked, rnd, fwd, fnt, kbd, seqno>>

\* The select statement evaluates the channel operand of its receive case: it
\* reads the field et.event_channel.
ChannelEvents_select(p) ==
    /\ At(p, "select")
    /\ pc' = [pc EXCEPT ![p] = "selected"]
    /\ frame' = [frame EXCEPT ![p].ch = event_channel]
    /\ UNCHANGED <<scr, chv, flg, grid_lock, ret, panicked, rnd, fwd, fnt, kbd, seqno>>

\* The select statement proceeds with a case that is ready, either one when both
\* are: the receive takes the oldest event, or nil from the closed channel, and
\* goes on to forward it; the quit case closes ch and ends the goroutine.
ChannelEvents_case(p) ==
    /\ At(p, "selected")
    /\ \E c \in {"recv", "quit"} :
          IF c = "recv"
          THEN /\ RecvReady(p)
               /\ chan_buf' = IF chan_buf # <<>> THEN Tail(chan_buf) ELSE chan_buf
               /\ frame' = [frame EXCEPT ![p].evs =
                      <<IF chan_buf # <<>> THEN Head(chan_buf) ELSE NilEvent>>]
               /\ pc' = [pc EXCEPT ![p] = "forward"]
               /\ UNCHANGED <<ret, grid_lock, panicked, ch_closed>>
          ELSE /\ quit_closed
               /\ ch_closed' = TRUE
               /\ Return(p, [NoRet EXCEPT !.op = "ChannelEvents"])
               /\ UNCHANGED chan_buf
    /\ UNCHANGED <<scr, event_channel, chan_closed, flg, rnd, ch_buf, quit_closed, fnt, kbd, seqno>>

\* ch <- ev: waits while ch is full; then the loop starts over.
ChannelEvents_forward(p) ==
    /\ At(p, "forward")
    /\ Len(ch_buf) < MaxForward
    /\ ch_buf' = Append(ch_buf, Head(frame[p].evs))
    /\ pc' = [pc EXCEPT ![p] = "select"]
    /\ frame' = [frame EXCEPT ![p].evs = <<>>]
    /\ UNCHANGED <<scr, chv, flg, grid_lock, ret, panicked, rnd, ch_closed,
                   quit_closed, fnt, kbd, seqno>>

\* The application receives from ch: the oldest forwarded event, or nil from the
\* closed channel.
ReceiveCh(p) ==
    /\ In(p, "<-ch")
    /\ ch_buf # <<>> \/ ch_closed
    /\ IF ch_buf # <<>>
       THEN /\ ch_buf' = Tail(ch_buf)
            /\ Return(p, [NoRet EXCEPT !.op = "<-ch", !.ev = Head(ch_buf)])
       ELSE /\ UNCHANGED ch_buf
            /\ Return(p, [NoRet EXCEPT !.op = "<-ch", !.ev = NilEvent])
    /\ UNCHANGED <<scr, chv, flg, rnd, ch_closed, quit_closed, fnt, kbd, seqno>>

\* The application closes the quit channel.
CloseQuit(p) ==
    /\ In(p, "close(quit)")
    /\ quit_closed' = TRUE
    /\ Return(p, [NoRet EXCEPT !.op = "close(quit)"])
    /\ UNCHANGED <<scr, chv, flg, rnd, ch_buf, ch_closed, fnt, kbd, seqno>>

\* The application makes the next numbered key event and posts it with op.
CallPost(p, op) ==
    /\ Call(p, CallOf(op, 0, 0, 0, <<>>, StyleDefault, <<Event("key", seqno + 1, 0)>>))
    /\ seqno' = seqno + 1
    /\ UNCHANGED kbd

----------------------------------------------------------------------------
(* Reporting flags, suspension and termination. *)

\* A method that only stores into the fields named by the primed conjuncts of its
\* caller returns.
Done(p) == Return(p, [NoRet EXCEPT !.op = frame[p].op])

\* EnableMouse(flags...): et.mouse_flags |= flag, for every flag given.
EnableMouse(p) ==
    /\ In(p, "EnableMouse")
    /\ mouse_flags' = mouse_flags \cup {frame[p].comb[i] : i \in DOMAIN frame[p].comb}
    /\ Done(p)
    /\ UNCHANGED <<scr, chv, focused, enable_focus, enable_paste, suspended,
                   close_error, rnd, fwd, fnt, kbd, seqno>>

DisableMouse(p) ==
    /\ In(p, "DisableMouse")
    /\ mouse_flags' = {}
    /\ Done(p)
    /\ UNCHANGED <<scr, chv, focused, enable_focus, enable_paste, suspended,
                   close_error, rnd, fwd, fnt, kbd, seqno>>

EnablePaste(p) ==
    /\ In(p, "EnablePaste")
    /\ enable_paste' = TRUE
    /\ Done(p)
    /\ UNCHANGED <<scr, chv, focused, mouse_flags, enable_focus, suspended,
                   close_error, rnd, fwd, fnt, kbd, seqno>>

DisablePaste(p) ==
    /\ In(p, "DisablePaste")
    /\ enable_paste' = FALSE
    /\ Done(p)
    /\ UNCHANGED <<scr, chv, focused, mouse_flags, enable_focus, suspended,
                   close_error, rnd, fwd, fnt, kbd, seqno>>

EnableFocus(p) ==
    /\ In(p, "EnableFocus")
    /\ enable_focus' = TRUE
    /\ Done(p)
    /\ UNCHANGED <<scr, chv, focused, mouse_flags, enable_paste, suspended,
                   close_error, rnd, fwd, fnt, kbd, seqno>>

DisableFocus(p) ==
    /\ In(p, "DisableFocus")
    /\ enable_focus' = FALSE
    /\ Done(p)
    /\ UNCHANGED <<scr, chv, focused, mouse_flags, enable_paste, suspended,
                   close_error, rnd, fwd, fnt, kbd, seqno>>

Suspend(p) ==
    /\ In(p, "Suspend")
    /\ suspended' = TRUE
    /\ Done(p)
    /\ UNCHANGED <<scr, chv, focused, mouse_flags, enable_focus, enable_paste,
                   close_error, rnd, fwd, fnt, kbd, seqno>>

Resume(p) ==
    /\ In(p, "Resume")
    /\ suspended' = FALSE
    /\ Done(p)
    /\ UNCHANGED <<scr, chv, focused, mouse_flags, enable_focus, enable_paste,
                   close_error, rnd, fwd, fnt, kbd, seqno>>

\* Close stores the error that stops the game loop: the error given, or
\* ebiten.ErrTermination when none is given.
Close(p) ==
    /\ In(p, "Close")
    /\ close_error' = IF frame[p].via = "" THEN "ErrTermination" ELSE frame[p].via
    /\ Done(p)
    /\ UNCHANGED <<scr, chv, focused, mouse_flags, enable_focus, enable_paste,
                   suspended, rnd, fwd, fnt, kbd, seqno>>

----------------------------------------------------------------------------
(* ETCellGame.Update: one tick of the game loop.  The call's x and y are   *)
(* the pointer position after the inverse GeoM mapping, its evs are the    *)
(* key events that the key section makes from this tick's keyboard state.  *)

\* The rectangle with its right and bottom edges included.
MouseIn_Closed(x, y) == 0 <= x /\ x <= layout.W /\ 0 <= y /\ y <= layout.H

\* mouse.In(et.layout)
MouseIn(x, y) == 0 <= x /\ x < layout.W /\ 0 <= y /\ y < layout.H

\* The tick with its mouse event in front of the focus-gained event.
UpdateEvents_MouseFirst(x, y, keys) ==
    LET inside == MouseIn(x, y)
        gained == IF inside /\ ~focused THEN <<Event("focus", 1, 0)>> ELSE <<>>
        mouse  == IF inside
                  THEN <<Event("mouse", GoDiv(x, cell_size.X), GoDiv(y, cell_size.Y))>>
                  ELSE <<>>
        typed  == IF inside THEN keys ELSE <<>>
        lost   == IF ~inside /\ focused THEN <<Event("focus", 0, 0)>> ELSE <<>>
        posted == inside \/ typed # <<>> \/ lost # <<>>
        tick   == IF ~posted THEN <<Event("time", 0, 0)>> ELSE <<>>
    IN  mouse \o gained \o typed \o lost \o tick

\* What the tick passes to postEvent, in order, and the `posted` flag after
\* each section.  The second `if !et.focused` (key section) never fires: the
\* mouse section, which has the same condition, has set et.focused.
UpdateEvents(x, y, keys) ==
    LET inside == MouseIn(x, y)
        gained == IF inside /\ ~focused THEN <<Event("focus", 1, 0)>> ELSE <<>>
        mouse  == IF inside
                  THEN <<Event("mouse", GoDiv(x, cell_size.X), GoDiv(y, cell_size.Y))>>
                  ELSE <<>>
        typed  == IF inside THEN keys ELSE <<>>
        lost   == IF ~inside /\ focused THEN <<Event("focus", 0, 0)>> ELSE <<>>
        posted == inside \/ typed # <<>> \/ lost # <<>>
        tick   == IF ~posted THEN <<Event("time", 0, 0)>> ELSE <<>>
    IN  gained \o mouse \o typed \o lost \o tick

\* et.focused as it was before the tick.
UpdateFocused_Unset(x, y) == focused

\* et.focused after the tick.
UpdateFocused(x, y) == MouseIn(x, y)

\* The stored error left in place.
UpdateCloseError_Kept(err) == err

\* What Update stores into et.close_error when it returns the stored error err.
UpdateCloseError(err) == "nil"

\* The tick goes on although the screen is suspended.
UpdateSkips_Never == FALSE

\* if et.suspended { return }
UpdateSkips == suspended

Update(p) ==
    /\ In(p, "Update")
    /\ LET f == frame[p]
       IN  IF close_error # "nil"
           THEN /\ close_error' = UpdateCloseError(close_error)
                /\ Return(p, [NoRet EXCEPT !.op = "Update", !.x = f.x, !.y = f.y,
                                           !.err = close_error])
                /\ UNCHANGED focused
           ELSE IF UpdateSkips
           THEN /\ Return(p, [NoRet EXCEPT !.op = "Update", !.x = f.x, !.y = f.y])
                /\ UNCHANGED <<close_error, focused>>
           ELSE /\ focused' = UpdateFocused(f.x, f.y)
                /\ Finish(p, [f EXCEPT !.evs = UpdateEvents(f.x, f.y, f.evs)])
                /\ UNCHANGED close_error
    /\ UNCHANGED <<scr, chv, mouse_flags, enable_focus, enable_paste, suspended, rnd, fwd, fnt, kbd, seqno>>

----------------------------------------------------------------------------
(* The key section of Update.  The keyboard of the tick is kbd: the keys   *)
(* that are down, in the order of inpututil.AppendPressedKeys, each with   *)
(* the number of ticks it has been down; the modifiers that modMask finds; *)
(* the characters of ebiten.AppendInputChars; and ebiten.ActualTPS, in     *)
(* hundredths of a tick per second.  An ebiten key is <<name, n>>, where   *)
(* <<"KeyA", n>> is the n-th letter key after KeyA; a tcell key likewise,  *)
(* <<"KeyCtrlA", n>> being tcell.KeyCtrlA + n.                             *)

ebiten_key_map ==
    [KeyArrowDown |-> "KeyDown", KeyArrowLeft |-> "KeyLeft", KeyArrowRight |-> "KeyRight",
     KeyArrowUp |-> "KeyUp", KeyBackspace |-> "KeyBackspace", KeyDelete |-> "KeyDelete",
     KeyEnd |-> "KeyEnd", KeyEnter |-> "KeyEnter", KeyEscape |-> "KeyEscape",
     KeyF1 |-> "KeyF1", KeyF2 |-> "KeyF2", KeyF3 |-> "KeyF3", KeyF4 |-> "KeyF4",
     KeyF5 |-> "KeyF5", KeyF6 |-> "KeyF6", KeyF7 |-> "KeyF7", KeyF8 |-> "KeyF8",
     KeyF9 |-> "KeyF9", KeyF10 |-> "KeyF10", KeyF11 |-> "KeyF11", KeyF12 |-> "KeyF12",
     KeyHome |-> "KeyHome", KeyInsert |-> "KeyInsert", KeyPageDown |-> "KeyPgDn",
     KeyPageUp |-> "KeyPgUp", KeyTab |-> "KeyTab"]

\* tcell.NewEventKey(key, rune, mods)
KeyEvent(key, rune, mods) == Event("key", <<key, rune>>, mods)

\* int(0.050 * tps): the ticks between two repeats.
interval_of(tps) == (5 * tps) \div 10000

\* delay_ticks and interval_ticks, with the defaults for a tick rate that gives
\* no interval.
delay_ticks(tps) == IF interval_of(tps) = 0 THEN 30 ELSE (5 * tps) \div 1000

interval_ticks(tps) == IF interval_of(tps) = 0 THEN 3 ELSE interval_of(tps)

\* The key fires when it goes down and never again.
isKeyJustPressedOrRepeating_NoRepeat(tps, d) == d = 1

\* isKeyJustPressedOrRepeating, for a key that has been down for d ticks.
isKeyJustPressedOrRepeating(tps, d) ==
    \/ d = 1
    \/ d >= delay_ticks(tps) /\ (d - delay_ticks(tps)) % interval_ticks(tps) = 0

\* e_key >= ebiten.KeyA && e_key <= ebiten.KeyZ
IsLetter(key) == key[1] = "KeyA" /\ 0 <= key[2] /\ key[2] <= 25

\* The events made for the keys ks, one by the rule ev for each.
EventsFor(ks, ev(_)) == [i \in 1..Len(ks) |-> ev(ks[i].key)]

\* The letter events made although Ctrl is in their modifiers.
KeySection_CtrlKept(k) ==
    LET firing == SelectSeq(k.pressed,
                            LAMBDA e : isKeyJustPressedOrRepeating(k.tps, e.d))
        letter(key) == KeyEvent(<<"KeyCtrlA", key[2]>>, 0, k.mods)
        rune(i) == KeyEvent(<<"KeyRune", 0>>, k.chars[i], k.mods \ {"Shift"})
        special(key) == KeyEvent(<<ebiten_key_map[key[1]], 0>>, 0, k.mods)
    IN  (IF "Ctrl" \in k.mods
         THEN EventsFor(SelectSeq(firing, LAMBDA e : IsLetter(e.key)), letter)
         ELSE [i \in 1..Len(k.chars) |-> rune(i)])
        \o EventsFor(SelectSeq(firing, LAMBDA e : e.key[1] \in DOMAIN ebiten_key_map),
                     special)

\* The key events of the tick, in the order that Update posts them: with Ctrl,
\* one per firing letter key; without, one per typed character; then one per
\* firing key of ebiten_key_map.
KeySection(k) ==
    LET firing == SelectSeq(k.pressed,
                            LAMBDA e : isKeyJustPressedOrRepeating(k.tps, e.d))
        letter(key) == KeyEvent(<<"KeyCtrlA", key[2]>>, 0, k.mods \ {"Ctrl"})
        rune(i) == KeyEvent(<<"KeyRune", 0>>, k.chars[i], k.mods \ {"Shift"})
        special(key) == KeyEvent(<<ebiten_key_map[key[1]], 0>>, 0, k.mods)
    IN  (IF "Ctrl" \in k.mods
         THEN EventsFor(SelectSeq(firing, LAMBDA e : IsLetter(e.key)), letter)
         ELSE [i \in 1..Len(k.chars) |-> rune(i)])
        \o EventsFor(SelectSeq(firing, LAMBDA e : e.key[1] \in DOMAIN ebiten_key_map),
                     special)

\* The game loop starts a tick with the pointer at (x, y) and the keyboard k.
CallTick(p, x, y, k) ==
    /\ Call(p, CallOf("Update", x, y, 0, <<>>, StyleDefault, KeySection(k)))
    /\ kbd' = k
    /\ UNCHANGED seqno

----------------------------------------------------------------------------
(* Layout. *)

\* Cells that cover the offered size: the division rounded up.
LayoutCells_RoundedUp(outside, cell) == GoDiv(outside + cell - 1, cell)

\* Whole cells that fit: outsideWidth / et.cell_size.X.
LayoutCells(outside, cell) == GoDiv(outside, cell)

\* Pixels that the cells cover: grid_size.X * et.cell_size.X.
LayoutPixels(cells, cell) == cells * cell

\* The resize event with its dimensions exchanged.
ResizeEvent_Swapped(cols, rows) == Event("resize", rows, cols)

\* tcell.NewEventResize(et.grid_size.X, et.grid_size.Y)
ResizeEvent(cols, rows) == Event("resize", cols, rows)

\* setScreenSize(cols, rows): on a change of size the grid is reallocated and a
\* resize event is posted; et.layout becomes the pixels the grid covers.
setScreenSize(cols, rows) ==
    LET changed == <<cols, rows>> # <<grid_size.X, grid_size.Y>>
    IN  [grid_size |-> [X |-> cols, Y |-> rows],
         grid |-> IF changed THEN MakeGrid(cols * rows) ELSE grid,
         layout |-> [W |-> cols * cell_size.X, H |-> rows * cell_size.Y],
         evs |-> IF changed THEN <<ResizeEvent(cols, rows)>> ELSE <<>>]

\* ETCellGame.Layout, with grid_lock held: the grid size from the offered size,
\* then setScreenSize; the call returns the size of et.layout.
Layout(p) ==
    /\ In(p, "Layout")
    /\ LET f == frame[p]
           new == setScreenSize(LayoutCells(f.x, cell_size.X),
                                LayoutCells(f.y, cell_size.Y))
       IN  /\ grid_size' = new.grid_size
           /\ grid' = new.grid
           /\ layout' = new.layout
           /\ Finish(p, [f EXCEPT !.sw = new.layout.W, !.sh = new.layout.H,
                                  !.evs = new.evs])
    /\ UNCHANGED <<cell_size, grid_draw, dst, chv, flg, rnd, fwd, fnt, kbd, seqno>>

\* etcell.Layout up to its test: the new grid size and the returned pixel size,
\* computed without the lock.
etcell_Layout(p) ==
    /\ In(p, "etcell.Layout")
    /\ LET f == frame[p]
           cols == LayoutCells(f.x, cell_size.X)
           rows == LayoutCells(f.y, cell_size.Y)
           w == LayoutPixels(cols, cell_size.X)
           h == LayoutPixels(rows, cell_size.Y)
       IN  IF <<cols, rows>> = <<grid_size.X, grid_size.Y>>
           THEN Return(p, [NoRet EXCEPT !.op = "etcell.Layout", !.x = f.x, !.y = f.y,
                                        !.sw = w, !.sh = h])
           ELSE /\ pc' = [pc EXCEPT ![p] = "lock"]
                /\ frame' = [frame EXCEPT ![p] =
                       [f EXCEPT !.op = "etcell.Layout.resize", !.sw = w, !.sh = h,
                                 !.evs = <<ResizeEvent(cols, rows)>>]]
                /\ UNCHANGED <<ret, grid_lock, panicked>>
    /\ UNCHANGED <<scr, chv, flg, rnd, fwd, fnt, kbd, seqno>>

\* etcell.Layout, the locked reallocation; then PostEvent of the resize event,
\* which is never filtered, after the lock is released.
etcell_Layout_resize(p) ==
    /\ In(p, "etcell.Layout.resize")
    /\ LET f == frame[p]
           ev == Head(f.evs)
       IN  /\ grid_size' = [X |-> ev.x, Y |-> ev.y]
           /\ grid' = MakeGrid(ev.x * ev.y)
           /\ grid_lock' = "none"
           /\ pc' = [pc EXCEPT ![p] = "send"]
           /\ frame' = [frame EXCEPT ![p] =
                  [f EXCEPT !.op = "etcell.Layout", !.ch = event_channel]]
           /\ UNCHANGED <<ret, panicked>>
    /\ UNCHANGED <<layout, cell_size, grid_draw, dst, chv, flg, rnd, fwd, fnt, kbd, seqno>>

----------------------------------------------------------------------------
(* Style, fallbacks and cursor. *)

SetStyle(p) ==
    /\ In(p, "SetStyle")
    /\ style_default' = frame[p].st
    /\ Done(p)
    /\ UNCHANGED <<scr, chv, flg, rune_fallback, cursor, cursor_style, GeoM, face,
                   dst_cursor, fwd, fnt, kbd, seqno>>

\* RegisterRuneFallback(r, subst), with grid_lock held: et.rune_fallback[r] = subst.
\* The call's r is the rune and its comb the runes of subst.
RegisterRuneFallback(p) ==
    /\ In(p, "RegisterRuneFallback")
    /\ rune_fallback' = [r \in DOMAIN rune_fallback \cup {frame[p].r} |->
                            IF r = frame[p].r THEN frame[p].comb ELSE rune_fallback[r]]
    /\ Done(p)
    /\ UNCHANGED <<scr, chv, flg, style_default, cursor, cursor_style, GeoM, face,
                   dst_cursor, fwd, fnt, kbd, seqno>>

\* UnregisterRuneFallback(r): delete(et.rune_fallback, r), without the lock.
UnregisterRuneFallback(p) ==
    /\ In(p, "UnregisterRuneFallback")
    /\ rune_fallback' = [r \in DOMAIN rune_fallback \ {frame[p].r} |-> rune_fallback[r]]
    /\ Done(p)
    /\ UNCHANGED <<scr, chv, flg, style_default, cursor, cursor_style, GeoM, face,
                   dst_cursor, fwd, fnt, kbd, seqno>>

\* ShowCursor(x, y): et.cursor = image.Point{X: x, Y: y}.
ShowCursor(p) ==
    /\ In(p, "ShowCursor")
    /\ cursor' = [X |-> frame[p].x, Y |-> frame[p].y]
    /\ Done(p)
    /\ UNCHANGED <<scr, chv, flg, style_default, rune_fallback, cursor_style, GeoM,
                   face, dst_cursor, fwd, fnt, kbd, seqno>>

\* HideCursor: et.ShowCursor(-1, -1).
HideCursor(p) ==
    /\ In(p, "HideCursor")
    /\ cursor' = [X |-> -1, Y |-> -1]
    /\ Done(p)
    /\ UNCHANGED <<scr, chv, flg, style_default, rune_fallback, cursor_style, GeoM,
                   face, dst_cursor, fwd, fnt, kbd, seqno>>

\* SetCursorStyle(cs): et.cursor_style = cs.  The call's via is the style.
SetCursorStyle(p) ==
    /\ In(p, "SetCursorStyle")
    /\ cursor_style' = frame[p].via
    /\ Done(p)
    /\ UNCHANGED <<scr, chv, flg, style_default, rune_fallback, cursor, GeoM, face,
                   dst_cursor, fwd, fnt, kbd, seqno>>

----------------------------------------------------------------------------
(* Show: the resolution of one cell. *)

\* Color.TrueColor().RGB() of the colours the model uses.
RGBOf(c) ==
    CASE c = "white" -> <<255, 255, 255>>
      [] c = "red" -> <<255, 0, 0>>
      [] c = "blue" -> <<0, 0, 255>>
      [] c = "gray" -> <<128, 128, 128>>
      [] c = "teal" -> <<0, 128, 128>>
      [] OTHER -> <<0, 0, 0>>

Min(a, b) == IF a < b THEN a ELSE b

\* Every channel doubled.
Intensify_Unclamped(rgb) == [i \in 1..3 |-> rgb[i] * 2]

\* Bold: every channel doubled, at most 255.
Intensify(rgb) == [i \in 1..3 |-> Min(255, rgb[i] * 2)]

\* Dim: every channel halved.
Deintensify(rgb) == [i \in 1..3 |-> Min(255, rgb[i] \div 2)]

\* e_color_of: the colour with alpha 255.
e_color_of(rgb) == <<rgb[1], rgb[2], rgb[3], 255>>

\* face.Glyph(r, style): the glyph, or the empty image when the face has none.
Glyph(r, fs) == IF r \in face.runes THEN [rune |-> r, style |-> fs] ELSE EmptyGlyph

\* The answer that ignores the fallback table.
CanDisplay_IgnoresFallbacks(r, checkFallbacks) == r \in face.runes

\* CanDisplay(r, checkFallbacks): the face has a glyph for r that is not its empty
\* image; or, when fallbacks are to be checked, a fallback is registered for r.
CanDisplay(r, checkFallbacks) ==
    \/ r \in face.runes
    \/ checkFallbacks /\ r \in DOMAIN rune_fallback

\* A call of CanDisplay: the call's r is the rune, its x is 1 when checkFallbacks
\* is true.  It returns n = 1 for true.
CanDisplay_call(p) ==
    /\ In(p, "CanDisplay")
    /\ Return(p, [NoRet EXCEPT !.op = "CanDisplay", !.r = frame[p].r, !.x = frame[p].x,
                               !.n = IF CanDisplay(frame[p].r, frame[p].x = 1)
                                     THEN 1 ELSE 0])
    /\ UNCHANGED <<scr, chv, flg, rnd, fwd, fnt, kbd, seqno>>

\* The style that Show resolves the cell with.
EffectiveStyle(c) == IF c.Style = StyleDefault THEN style_default ELSE c.Style

\* The attributes that Show applies: none when AttrInvalid is set.
EffectiveAttr(c) ==
    LET attr == EffectiveStyle(c).attr
    IN  IF "invalid" \in attr THEN {} ELSE attr

\* The foreground and background after the substitution of the defaults and the
\* reversal.
ResolvedColors(c) ==
    LET st == EffectiveStyle(c)
        fg == IF st.fg = "default" THEN "white" ELSE st.fg
        bg == IF st.bg = "default" THEN "black" ELSE st.bg
    IN  IF "reverse" \in EffectiveAttr(c) THEN [fg |-> bg, bg |-> fg]
                                          ELSE [fg |-> fg, bg |-> bg]

ResolvedFg(c) ==
    LET attr == EffectiveAttr(c)
        c0 == RGBOf(ResolvedColors(c).fg)
        c1 == IF "bold" \in attr THEN Intensify(c0) ELSE c0
    IN  IF "dim" \in attr THEN Deintensify(c1) ELSE c1

\* The runes whose glyphs the cell gets: its own; or, when the face cannot display
\* the primary rune, the registered fallback string, or a space in its place.
ResolvedRunes(c) ==
    IF CanDisplay(c.Rune, FALSE)
    THEN <<c.Rune>> \o c.Combining
    ELSE IF c.Rune \in DOMAIN rune_fallback
    THEN rune_fallback[c.Rune]
    ELSE <<32>> \o c.Combining

FontStyleOf(attr) ==
    IF {"italic", "bold"} \subseteq attr THEN "BoldItalic"
    ELSE IF "italic" \in attr THEN "Italic"
    ELSE IF "bold" \in attr THEN "Bold"
    ELSE "Normal"

\* Show evaluates runes[0]: it panics when the fallback string is empty.
Resolvable(c) == c.synced \/ ResolvedRunes(c) # <<>>

\* The loop body without its `if cell.synced { continue }`.
Resolve_Always(c, pt) ==
    LET runes == ResolvedRunes(c)
        fs == FontStyleOf(EffectiveAttr(c))
    IN  [c EXCEPT !.point = pt,
                  !.bgColor = e_color_of(RGBOf(ResolvedColors(c).bg)),
                  !.fgColor = e_color_of(ResolvedFg(c)),
                  !.glyph = Glyph(runes[1], fs),
                  !.combining = [i \in 1..(Len(runes) - 1) |-> Glyph(runes[i + 1], fs)],
                  !.synced = TRUE]

\* The cell at point pt after Show's loop body: a synced cell is left as it is.
Resolve(c, pt) ==
    IF c.synced THEN c
    ELSE LET runes == ResolvedRunes(c)
             fs == FontStyleOf(EffectiveAttr(c))
         IN  [c EXCEPT !.point = pt,
                       !.bgColor = e_color_of(RGBOf(ResolvedColors(c).bg)),
                       !.fgColor = e_color_of(ResolvedFg(c)),
                       !.glyph = Glyph(runes[1], fs),
                       !.combining = [i \in 1..(Len(runes) - 1) |-> Glyph(runes[i + 1], fs)],
                       !.synced = TRUE]

----------------------------------------------------------------------------
(* Fill, Clear, Show, Sync and Draw. *)

\* Fill, which takes no lock: one iteration of its loop over the cells per step.
\* The call's x is the loop variable n.
Fill(p) ==
    /\ In(p, "Fill")
    /\ LET f == frame[p]
       IN  IF f.x < Len(grid)
           THEN /\ grid' = [grid EXCEPT ![f.x + 1] = NewCell(f.r, <<>>, f.st)]
                /\ frame' = [frame EXCEPT ![p].x = f.x + 1]
                /\ UNCHANGED <<pc, ret, grid_lock, panicked>>
           ELSE /\ Return(p, [NoRet EXCEPT !.op = IF f.via = "" THEN "Fill" ELSE f.via])
                /\ UNCHANGED grid
    /\ UNCHANGED <<grid_size, layout, cell_size, grid_draw, dst, chv, flg, rnd, fwd, fnt, kbd, seqno>>

\* Clear: et.Fill(' ', tcell.StyleDefault).
Clear(p) ==
    /\ In(p, "Clear")
    /\ frame' = [frame EXCEPT ![p] =
           [CallOf("Fill", 0, 0, 32, <<>>, StyleDefault, <<>>) EXCEPT !.via = "Clear"]]
    /\ UNCHANGED <<scr, chv, flg, grid_lock, pc, ret, panicked, rnd, fwd, fnt, kbd, seqno>>

\* The loops stop one cell short of the end of the grid.
ShowCount_AllButLast ==
    IF grid_size.X > 0 /\ grid_size.Y > 0 THEN grid_size.X * grid_size.Y - 1 ELSE 0

\* The cells that Show's loops visit, and the point of the n-th of them.
ShowCount == IF grid_size.X > 0 /\ grid_size.Y > 0 THEN grid_size.X * grid_size.Y ELSE 0

PointOf(n) == [X |-> (n - 1) % grid_size.X, Y |-> (n - 1) \div grid_size.X]

\* Show, with grid_lock held: every cell that is not synced is resolved and
\* marked synced, in the order of the grid; the pass stops with a panic at the
\* first cell that cannot be indexed or whose runes are empty.
Show(p) ==
    /\ In(p, "Show")
    /\ LET bad == {n \in 1..ShowCount : n > Len(grid) \/ ~Resolvable(grid[n])}
           stop == IF bad = {} THEN ShowCount + 1
                   ELSE CHOOSE n \in bad : \A m \in bad : n <= m
       IN  /\ grid' = [n \in DOMAIN grid |->
                          IF n < stop THEN Resolve(grid[n], PointOf(n)) ELSE grid[n]]
           /\ IF bad = {}
              THEN Return(p, [NoRet EXCEPT !.op = IF frame[p].via = "" THEN "Show"
                                                   ELSE frame[p].via])
              ELSE Panic(p, "index out of range")
    /\ UNCHANGED <<grid_size, layout, cell_size, grid_draw, dst, chv, flg, rnd, fwd, fnt, kbd, seqno>>

\* The cell left as it is.
Unsync_Kept(c) == c

\* et.grid[n].synced = false
Unsync(c) == [c EXCEPT !.synced = FALSE]

\* Sync: with grid_lock held every cell is marked unsynced; the lock is released
\* and Show is called, which takes the lock again.
Sync(p) ==
    /\ In(p, "Sync")
    /\ grid' = [n \in DOMAIN grid |-> Unsync(grid[n])]
    /\ grid_lock' = "none"
    /\ pc' = [pc EXCEPT ![p] = "lock"]
    /\ frame' = [frame EXCEPT ![p] =
           [CallOf("Show", 0, 0, 0, <<>>, StyleDefault, <<>>) EXCEPT !.via = "Sync"]]
    /\ UNCHANGED <<grid_size, layout, cell_size, grid_draw, dst, chv, flg, ret,
                   panicked, rnd, fwd, fnt, kbd, seqno>>

\* The instants that the clock is read at, in milliseconds: the starts and the
\* middles of the first cycles of the text and of the cursor.
Times ==
    {k * (blink_text_ms \div 2) : k \in 0..MaxBeat}
    \cup {k * (blink_cursor_ms \div 2) : k \in 0..MaxBeat}

\* text_blink_phase := now % et.blink_text_ms < et.blink_text_ms / 2
TextBlinkPhase(now) == (now % blink_text_ms) < (blink_text_ms \div 2)

\* The phase of the second half of the cycle.
CursorBlinkPhase_SecondHalf(now) == (now % blink_cursor_ms) >= (blink_cursor_ms \div 2)

\* cursor_blink_phase := now % et.blink_cursor_ms < et.blink_cursor_ms / 2
CursorBlinkPhase(now) == (now % blink_cursor_ms) < (blink_cursor_ms \div 2)

\* Draw, with grid_lock held: the grid is copied into grid_draw; the lock is
\* released before anything is drawn, and the clock is read.
Draw(p) ==
    /\ In(p, "Draw")
    /\ grid_draw' = grid
    /\ grid_lock' = "none"
    /\ pc' = [pc EXCEPT ![p] = "blit"]
    /\ \E now \in Times : frame' = [frame EXCEPT ![p].now = now]
    /\ UNCHANGED <<grid_size, grid, layout, cell_size, dst, chv, flg, ret,
                   panicked, rnd, fwd, fnt, kbd, seqno>>

\* What Draw draws for one synced cell: the background tile, the glyphs (none in
\* the blink phase of a blinking cell), the underline and the strike-through, at
\* the cell's position under the caller's transform.
Blit(c, blink_phase) ==
    [x |-> c.point.X * cell_size.X + GeoM.tx,
     y |-> c.point.Y * cell_size.Y + GeoM.ty,
     bg |-> c.bgColor,
     fg |-> c.fgColor,
     glyphs |-> IF "blink" \in c.Style.attr /\ blink_phase THEN <<>>
                ELSE SelectSeq(<<c.glyph>> \o c.combining, LAMBDA g : g # NilGlyph),
     underline |-> "underline" \in c.Style.attr,
     strike |-> "strike" \in c.Style.attr]

\* What Draw draws for the cells g: unsynced cells are skipped.
Blits(g, blink_phase) ==
    LET shown == SelectSeq(g, LAMBDA c : c.synced)
    IN  [n \in 1..Len(shown) |-> Blit(shown[n], blink_phase)]

\* The cursor styles that do not blink.
SteadyCursor == {"Default", "SteadyUnderline", "SteadyBlock", "SteadyBar"}

\* The rows that the cursor image covers within its cell, in eighths of a pixel
\* from the top of the cell: the whole cell, the bar below the baseline, or the
\* bar above it.
CursorBand ==
    LET ch == cell_size.Y
    IN  IF cursor_style \in {"SteadyUnderline", "BlinkingUnderline"}
        THEN [top |-> 8 * face.HAscent + ch, bottom |-> 8 * face.HAscent + 2 * ch]
        ELSE IF cursor_style \in {"SteadyBar", "BlinkingBar"}
        THEN [top |-> 8 * face.HAscent - 2 * ch, bottom |-> 8 * face.HAscent]
        ELSE [top |-> 0, bottom |-> 8 * ch]

\* The pixels of a target image of w x h pixels that the cursor is drawn into:
\* the cursor image is placed at et.cursor times the cell size, under the caller's
\* transform, unless the cursor is in the dark phase of its blink.
CursorPixels(w, h, blink_phase) ==
    LET x0 == cursor.X * cell_size.X + GeoM.tx
        y0 == 8 * (cursor.Y * cell_size.Y + GeoM.ty)
    IN  IF blink_phase /\ cursor_style \notin SteadyCursor
        THEN {}
        ELSE {px \in (0..(w - 1)) \X (0..(h - 1)) :
                 /\ x0 <= px[1] /\ px[1] < x0 + cell_size.X
                 /\ 8 * px[2] < y0 + CursorBand.bottom
                 /\ y0 + CursorBand.top < 8 * px[2] + 8}

\* The grid as it is when the cells are drawn.
DrawSource_Live == grid

\* for n := range et.grid_draw: the cells that Draw draws from.
DrawSource == grid_draw

\* Draw, after the lock: the synced cells of the snapshot are drawn and then the
\* cursor, each in the blink phase that the clock gave.  The call's x and y are
\* the size of the target image, its now is the clock as read.
Draw_blit(p) ==
    /\ At(p, "blit")
    /\ dst' = Blits(DrawSource, TextBlinkPhase(frame[p].now))
    /\ dst_cursor' = CursorPixels(frame[p].x, frame[p].y, CursorBlinkPhase(frame[p].now))
    /\ Return(p, [NoRet EXCEPT !.op = "Draw"])
    /\ UNCHANGED <<grid_size, grid, layout, cell_size, grid_draw, chv, flg,
                   style_default, rune_fallback, cursor, cursor_style, GeoM, face,
                   fwd, fnt, kbd, seqno>>

----------------------------------------------------------------------------
(* SpecGrid: one goroutine sets and gets cell content, at coordinates in   *)
(* and around a grid of up to MaxCols x MaxRows cells.                     *)

Coords == (-1..MaxCols) \X (-1..MaxRows)

GridCalls ==
    {CallOf("SetContent", c[1], c[2], r, <<>>, StyleA, <<>>) : c \in Coords, r \in Runes}
    \cup {CallOf("GetContent", c[1], c[2], 0, <<>>, StyleDefault, <<>>) : c \in Coords}

InitGrid == \E cols \in 1..MaxCols, rows \in 1..MaxRows : InitScreen(cols, rows, 1, 1)

CallGrid == \E f \in GridCalls : CallPlain("worker", f)

LockGrid == Lock("worker")

SetContentGrid == SetContent("worker")

GetContentGrid == GetContent("worker")

NextGrid == CallGrid \/ LockGrid \/ SetContentGrid \/ GetContentGrid

SpecGrid == InitGrid /\ [][NextGrid]_vars

----------------------------------------------------------------------------
(* SpecQueueFull: one goroutine posts numbered key events, with the        *)
(* screen's PostEvent or the legacy one, and another polls them.           *)

InitQueueFull == InitScreen(1, 1, 1, 1)

CallPostQueueFull ==
    /\ seqno < MaxPosts
    /\ \E op \in {"PostEvent", "etcell.PostEvent"} : CallPost("aux", op)

CallPollQueueFull ==
    CallPlain("worker", CallOf("PollEvent", 0, 0, 0, <<>>, StyleDefault, <<>>))

NextQueueFull ==
    \/ CallPostQueueFull
    \/ CallPollQueueFull
    \/ Lock("aux")
    \/ PostEvent("aux")
    \/ etcell_PostEvent("aux")
    \/ postEvent("aux")
    \/ chansend("aux")
    \/ PollEvent("worker")
    \/ chanrecv("worker")

SpecQueueFull == InitQueueFull /\ [][NextQueueFull]_vars

----------------------------------------------------------------------------
(* SpecLayout: the game loop negotiates the layout, with ETCellGame.Layout *)
(* or the legacy etcell.Layout, for every offered size up to MaxPix and    *)
(* every cell size up to MaxCell; the application polls the resize events. *)

Plain(op) == CallOf(op, 0, 0, 0, <<>>, StyleDefault, <<>>)

Room == Len(chan_buf) < MaxQueued

InitLayout == \E cw \in 1..MaxCell, ch \in 1..MaxCell : InitScreen(1, 1, cw, ch)

CallLayout ==
    /\ Room
    /\ \E op \in {"Layout", "etcell.Layout"}, w \in 0..MaxPix, h \in 0..MaxPix :
          CallPlain("host", CallOf(op, w, h, 0, <<>>, StyleDefault, <<>>))

CallPoll == CallPlain("worker", Plain("PollEvent"))

NextLayout ==
    \/ CallLayout
    \/ CallPoll
    \/ Lock("host")
    \/ Layout("host")
    \/ etcell_Layout("host")
    \/ etcell_Layout_resize("host")
    \/ postEvent("host")
    \/ chansend("host")
    \/ PollEvent("worker")
    \/ chanrecv("worker")

SpecLayout == InitLayout /\ [][NextLayout]_vars

----------------------------------------------------------------------------
(* SpecEvents: one goroutine runs game ticks and, between them, posts      *)
(* events of every kind, switches the reporting flags, suspends, resumes,  *)
(* closes and polls.  The screen is one cell of one pixel, so the pointer  *)
(* is inside the layout at 0 and outside it at -1 and 1.                   *)

KeyInputs == {<<>>, <<Event("key", 97, 0)>>}

PostKinds == {Event("key", 98, 0), Event("focus", 1, 0), Event("paste", 1, 0),
              Event("mouse", 0, 0), Event("resize", 1, 1), Event("time", 0, 0)}

FlagCalls ==
    {Plain(op) : op \in {"DisableMouse", "EnablePaste", "DisablePaste", "EnableFocus",
                         "DisableFocus", "Suspend", "Resume", "Close"}}
    \cup {CallOf("EnableMouse", 0, 0, 0, fl, StyleDefault, <<>>) : fl \in {<<>>, <<1>>}}
    \cup {[Plain("Close") EXCEPT !.via = "io.EOF"]}

InitEvents == InitScreen(1, 1, 1, 1)

CallUpdateEvents ==
    /\ Room
    /\ \E x \in -1..1, keys \in KeyInputs :
          CallPlain("host", CallOf("Update", x, 0, 0, <<>>, StyleDefault, keys))

CallPostEvents ==
    /\ Room
    /\ \E ev \in PostKinds :
          CallPlain("host", CallOf("PostEvent", 0, 0, 0, <<>>, StyleDefault, <<ev>>))

CallFlagEvents == \E f \in FlagCalls : CallPlain("host", f)

CallPollEvents == chan_buf # <<>> /\ CallPlain("host", Plain("PollEvent"))

NextEvents ==
    \/ CallUpdateEvents
    \/ CallPostEvents
    \/ CallFlagEvents
    \/ CallPollEvents
    \/ Lock("host")
    \/ Update("host")
    \/ PostEvent("host")
    \/ postEvent("host")
    \/ chansend("host")
    \/ PollEvent("host")
    \/ chanrecv("host")
    \/ EnableMouse("host")
    \/ DisableMouse("host")
    \/ EnablePaste("host")
    \/ DisablePaste("host")
    \/ EnableFocus("host")
    \/ DisableFocus("host")
    \/ Suspend("host")
    \/ Resume("host")
    \/ Close("host")

SpecEvents == InitEvents /\ [][NextEvents]_vars

(* The game loop ticks with the pointer inside or outside the layout, once focus
   reporting is on, while the application suspends, resumes and polls. *)
InitFocus == InitScreen(1, 1, 1, 1)

CallTickFocus ==
    /\ enable_focus /\ Len(chan_buf) < MaxBacklog
    /\ \E x \in -1..0 : CallPlain("host", CallOf("Update", x, 0, 0, <<>>, StyleDefault, <<>>))

CallWorkerFocus ==
    \/ ~enable_focus /\ CallPlain("worker", Plain("EnableFocus"))
    \/ \E op \in {"Suspend", "Resume"} : CallPlain("worker", Plain(op))
    \/ chan_buf # <<>> /\ CallPlain("worker", Plain("PollEvent"))

NextFocus ==
    \/ CallTickFocus
    \/ CallWorkerFocus
    \/ \E p \in {"host", "worker"} : Lock(p)
    \/ Update("host")
    \/ postEvent("host")
    \/ chansend("host")
    \/ EnableFocus("worker")
    \/ Suspend("worker")
    \/ Resume("worker")
    \/ PollEvent("worker")
    \/ chanrecv("worker")

SpecFocus == InitFocus /\ [][NextFocus]_vars

----------------------------------------------------------------------------
(* SpecFini: the application finalizes the screen from one goroutine while *)
(* the game loop runs ticks and layouts, a second goroutine of the         *)
(* application polls, and posts are made before, during and after Fini.    *)

InitFini == InitScreen(1, 1, 1, 1)

CallHostFini ==
    /\ Room
    /\ \/ \E x \in -1..0 : CallPlain("host", CallOf("Update", x, 0, 0, <<>>, StyleDefault, <<>>))
       \/ \E w \in 1..2 : CallPlain("host", CallOf("Layout", w, 1, 0, <<>>, StyleDefault, <<>>))

CallPostFini ==
    /\ Room
    /\ CallPlain("aux", CallOf("PostEvent", 0, 0, 0, <<>>, StyleDefault,
                               <<Event("key", 98, 0)>>))

\* Fini is called once.
CallFini == ~chan_closed /\ CallPlain("aux", Plain("Fini"))

NextFini ==
    \/ CallHostFini
    \/ CallPostFini
    \/ CallFini
    \/ CallPoll
    \/ \E p \in {"host", "aux"} : Lock(p)
    \/ Update("host")
    \/ Layout("host")
    \/ PostEvent("aux")
    \/ \E p \in {"host", "aux"} : postEvent(p)
    \/ \E p \in {"host", "aux"} : chansend(p)
    \/ Fini("aux")
    \/ Fini_nil("aux")
    \/ PollEvent("worker")
    \/ chanrecv("worker")

SpecFini == InitFini /\ [][NextFini]_vars

----------------------------------------------------------------------------
(* SpecRepeat: the game loop runs ticks with the pointer inside the screen *)
(* while one key of ebiten_key_map is held for up to MaxHeld ticks,        *)
(* released and pressed again, at tick rates of 0, 19.99, 20 and 60 ticks  *)
(* per second; the application polls.                                      *)

TPSValues == {0, 1999, 2000, 6000}

InitRepeat == InitScreen(1, 1, 1, 1)

\* The number of ticks that the key has been down.
HeldFor == IF kbd.pressed = <<>> THEN 0 ELSE kbd.pressed[1].d

CallTickRepeat ==
    /\ Room
    /\ \E tps \in TPSValues :
          \/ /\ HeldFor < MaxHeld
             /\ CallTick("host", 0, 0,
                         [NoKbd EXCEPT !.tps = tps,
                                       !.pressed = <<[key |-> <<"KeyArrowUp", 0>>,
                                                      d |-> HeldFor + 1]>>])
          \/ /\ HeldFor > 0
             /\ CallTick("host", 0, 0, [NoKbd EXCEPT !.tps = tps])

CallPollRepeat == chan_buf # <<>> /\ CallPlain("host", Plain("PollEvent"))

NextRepeat ==
    \/ CallTickRepeat
    \/ CallPollRepeat
    \/ Lock("host")
    \/ Update("host")
    \/ postEvent("host")
    \/ chansend("host")
    \/ PollEvent("host")
    \/ chanrecv("host")

SpecRepeat == InitRepeat /\ [][NextRepeat]_vars

----------------------------------------------------------------------------
(* SpecKeys: the game loop runs ticks with the pointer inside or outside   *)
(* the screen while up to MaxKeys of the keys A, Z, ArrowUp and Digit1 are *)
(* down, each for its first or a later tick, with Ctrl and Shift held or   *)
(* not and up to two characters typed; the application polls.              *)

\* The keys in the order of their ebiten key codes.
KeyOrder == <<<<"KeyA", 0>>, <<"KeyA", 25>>, <<"KeyArrowUp", 0>>, <<"KeyDigit1", 0>>>>

\* The keys of KeyOrder at the indices idx, in order, held for the ticks ds.
PressedAt(idx, ds) ==
    LET at == SelectSeq([i \in 1..Len(KeyOrder) |-> i], LAMBDA i : i \in idx)
    IN  [n \in 1..Len(at) |-> [key |-> KeyOrder[at[n]], d |-> ds[at[n]]]]

Keyboards ==
    {[pressed |-> PressedAt(idx, ds), mods |-> mods, chars |-> chars, tps |-> 0] :
        idx \in {i \in SUBSET (1..Len(KeyOrder)) : Cardinality(i) <= MaxKeys},
        ds \in [1..Len(KeyOrder) -> {1, 2}],
        mods \in SUBSET {"Ctrl", "Shift"},
        chars \in {<<>>, <<97>>, <<65, 98>>}}

InitKeys == InitScreen(1, 1, 1, 1)

CallTickKeys ==
    /\ Room
    /\ \E x \in -1..0, k \in Keyboards : CallTick("host", x, 0, k)

CallPollKeys == chan_buf # <<>> /\ CallPlain("host", Plain("PollEvent"))

NextKeys ==
    \/ CallTickKeys
    \/ CallPollKeys
    \/ Lock("host")
    \/ Update("host")
    \/ postEvent("host")
    \/ chansend("host")
    \/ PollEvent("host")
    \/ chanrecv("host")

SpecKeys == InitKeys /\ [][NextKeys]_vars

----------------------------------------------------------------------------
(* SpecMouse: the game loop negotiates layouts of up to MaxPix pixels with *)
(* cells of up to MaxCell pixels and runs ticks with the pointer in and    *)
(* around the layout, with a character typed or not; the application      *)
(* enables mouse reporting and polls.                                      *)

Typing == {NoKbd, [NoKbd EXCEPT !.chars = <<97>>]}

InitMouse == \E cw \in 1..MaxCell, ch \in 1..MaxCell : InitScreen(1, 1, cw, ch)

CallTickMouse ==
    /\ Room
    /\ \E x \in -MaxCell..MaxPix, y \in -MaxCell..MaxPix, k \in Typing :
          CallTick("host", x, y, k)

CallLayoutMouse ==
    /\ Room
    /\ \E w \in 0..MaxPix, h \in 0..MaxPix :
          CallPlain("host", CallOf("Layout", w, h, 0, <<>>, StyleDefault, <<>>))

CallEnableMouse ==
    CallPlain("host", CallOf("EnableMouse", 0, 0, 0, <<1>>, StyleDefault, <<>>))

CallPollMouse == chan_buf # <<>> /\ CallPlain("host", Plain("PollEvent"))

NextMouse ==
    \/ CallTickMouse
    \/ CallLayoutMouse
    \/ CallEnableMouse
    \/ CallPollMouse
    \/ Lock("host")
    \/ Update("host")
    \/ Layout("host")
    \/ EnableMouse("host")
    \/ postEvent("host")
    \/ chansend("host")
    \/ PollEvent("host")
    \/ chanrecv("host")

SpecMouse == InitMouse /\ [][NextMouse]_vars

----------------------------------------------------------------------------
(* SpecDeadlock: the game loop runs ticks on a screen with the reporting   *)
(* flags as constructed, while the application's event loop polls an event *)
(* and then sets content and shows it.  Nothing bounds the queue but its   *)
(* capacity.                                                               *)

InitDeadlock == InitScreen(1, 1, 1, 1)

CallHostDeadlock ==
    \E x \in -1..0 : CallPlain("host", CallOf("Update", x, 0, 0, <<>>, StyleDefault, <<>>))

CallWorkerDeadlock ==
    \E f \in {Plain("PollEvent"), Plain("Show")}
             \cup {CallOf("SetContent", 0, 0, r, <<>>, StyleA, <<>>) : r \in Runes} :
       CallPlain("worker", f)

NextDeadlock ==
    \/ CallHostDeadlock
    \/ CallWorkerDeadlock
    \/ \E p \in {"host", "worker"} : Lock(p)
    \/ Update("host")
    \/ postEvent("host")
    \/ chansend("host")
    \/ PollEvent("worker")
    \/ chanrecv("worker")
    \/ SetContent("worker")
    \/ Show("worker")

SpecDeadlock == InitDeadlock /\ [][NextDeadlock]_vars

----------------------------------------------------------------------------
(* SpecRace: the game loop draws and negotiates layouts of one or two      *)
(* cells while the application writes, reads, fills, clears, shows and     *)
(* syncs the grid and polls the resize events.                             *)

InitRace == InitScreen(1, 1, 1, 1)

CallHostRace ==
    \/ CallPlain("host", Plain("Draw"))
    \/ Room /\ \E w \in 1..2 : CallPlain("host", CallOf("Layout", w, 1, 0, <<>>, StyleDefault, <<>>))

CallWorkerRace ==
    \E f \in {Plain("PollEvent"), Plain("Show"), Plain("Sync"), Plain("Clear")}
             \cup {CallOf("Fill", 0, 0, r, <<>>, StyleA, <<>>) : r \in Runes}
             \cup {CallOf("SetContent", x, 0, r, <<>>, StyleA, <<>>) : x \in 0..1, r \in Runes}
             \cup {CallOf("GetContent", x, 0, 0, <<>>, StyleDefault, <<>>) : x \in 0..1} :
       CallPlain("worker", f)

NextRace ==
    \/ CallHostRace
    \/ CallWorkerRace
    \/ \E p \in {"host", "worker"} : Lock(p)
    \/ Draw("host")
    \/ Draw_blit("host")
    \/ Layout("host")
    \/ postEvent("host")
    \/ chansend("host")
    \/ PollEvent("worker")
    \/ chanrecv("worker")
    \/ SetContent("worker")
    \/ GetContent("worker")
    \/ Fill("worker")
    \/ Clear("worker")
    \/ Show("worker")
    \/ Sync("worker")

SpecRace == InitRace /\ [][NextRace]_vars

(* Draw on the game loop while the application writes, shows and syncs, and a
   layout change arrives. *)
InitSnapshot == InitScreen(1, 1, 1, 1)

CallWorkerSnapshot ==
    \E f \in {Plain("Show"), Plain("Sync"),
              CallOf("Fill", 0, 0, 65, <<>>, StyleA, <<>>),
              CallOf("SetContent", 0, 0, 65, <<>>, StyleA, <<>>)} :
       CallPlain("worker", f)

CallAuxSnapshot ==
    Room /\ CallPlain("aux", CallOf("Layout", 2, 1, 0, <<>>, StyleDefault, <<>>))

NextSnapshot ==
    \/ CallPlain("host", Plain("Draw"))
    \/ CallWorkerSnapshot
    \/ CallAuxSnapshot
    \/ \E p \in Procs : Lock(p)
    \/ Draw("host")
    \/ Draw_blit("host")
    \/ Layout("aux")
    \/ postEvent("aux")
    \/ chansend("aux")
    \/ SetContent("worker")
    \/ Fill("worker")
    \/ Show("worker")
    \/ Sync("worker")

SpecSnapshot == InitSnapshot /\ [][NextSnapshot]_vars

----------------------------------------------------------------------------
(* SpecChannel: the application starts ChannelEvents and receives from ch, *)
(* and at any time closes quit or calls Fini, while the game loop runs     *)
(* ticks that post time events.  Every goroutine that can take a step of   *)
(* the call it is in eventually takes one; nothing obliges the application *)
(* or the game loop to make another call.                                  *)

InitChannel == InitScreen(1, 1, 1, 1)

CallTickChannel ==
    /\ Room
    /\ CallPlain("host", CallOf("Update", -1, 0, 0, <<>>, StyleDefault, <<>>))

\* ChannelEvents is started once.
CallChannelEvents ==
    /\ ~ch_closed
    /\ CallPlain("worker", Plain("ChannelEvents"))

CallReceiveCh == CallPlain("aux", Plain("<-ch"))

CallCloseQuit == ~quit_closed /\ CallPlain("aux", Plain("close(quit)"))

HostChannel ==
    \/ Lock("host")
    \/ Update("host")
    \/ postEvent("host")
    \/ chansend("host")

ForwarderChannel ==
    \/ ChannelEvents("worker")
    \/ ChannelEvents_select("worker")
    \/ ChannelEvents_case("worker")
    \/ ChannelEvents_forward("worker")

AppChannel ==
    \/ ReceiveCh("aux")
    \/ CloseQuit("aux")
    \/ Fini("aux")
    \/ Fini_nil("aux")

NextChannel ==
    \/ CallTickChannel
    \/ CallChannelEvents
    \/ CallReceiveCh
    \/ CallCloseQuit
    \/ CallFini
    \/ HostChannel
    \/ ForwarderChannel
    \/ AppChannel

SpecChannel ==
    /\ InitChannel /\ [][NextChannel]_vars
    /\ WF_vars(HostChannel) /\ WF_vars(ForwarderChannel) /\ WF_vars(AppChannel)

----------------------------------------------------------------------------
(* SpecRender: the application writes a grid of two cells, changes the     *)
(* default style and the fallback table, and shows or syncs, with a face   *)
(* that has a glyph for the space or one that has none; the game loop      *)
(* draws between the application's calls.  945 is a rune neither face can  *)
(* display, 769 a combining rune.                                          *)

StyleB == [fg |-> "blue", bg |-> "white", attr |-> {"reverse", "blink", "underline"}]

RenderCalls ==
    {Plain("Show"), Plain("Sync"), Plain("Clear")}
    \cup {CallOf("SetContent", 1, 0, 65, <<>>, StyleA, <<>>)}
    \cup {CallOf("SetContent", 0, 0, 945, <<769>>, StyleDefault, <<>>)}
    \cup {CallOf("SetStyle", 0, 0, 0, <<>>, st, <<>>) : st \in {StyleDefault, StyleB}}
    \cup {CallOf("RegisterRuneFallback", 0, 0, 945, <<>>, StyleDefault, <<>>)}
    \cup {CallOf("RegisterRuneFallback", 0, 0, 32, <<65>>, StyleDefault, <<>>)}
    \cup {CallOf("UnregisterRuneFallback", 0, 0, 945, <<>>, StyleDefault, <<>>)}
    \cup {CallOf("CanDisplay", cf, 0, r, <<>>, StyleDefault, <<>>) :
             cf \in {0, 1}, r \in {65, 945}}
    \cup {CallOf("GetContent", x, 0, 0, <<>>, StyleDefault, <<>>) : x \in {0, 1}}

InitRender ==
    \E rs \in {{32, 65}, {65}} : InitDisplay(2, 1, 1, 1, FaceOf(rs, 1), GeoMIdentity)

CallRender ==
    /\ pc["host"] = "idle"
    /\ \E f \in RenderCalls : CallPlain("worker", f)

CallDrawRender ==
    /\ pc["worker"] = "idle"
    /\ CallPlain("host", CallOf("Draw", 2, 1, 0, <<>>, StyleDefault, <<>>))

NextRender ==
    \/ CallRender
    \/ CallDrawRender
    \/ \E p \in {"host", "worker"} : Lock(p)
    \/ SetContent("worker")
    \/ Fill("worker")
    \/ Clear("worker")
    \/ Show("worker")
    \/ Sync("worker")
    \/ SetStyle("worker")
    \/ RegisterRuneFallback("worker")
    \/ UnregisterRuneFallback("worker")
    \/ CanDisplay_call("worker")
    \/ GetContent("worker")
    \/ Draw("host")
    \/ Draw_blit("host")

SpecRender == InitRender /\ [][NextRender]_vars

----------------------------------------------------------------------------
(* SpecColor: the application writes the cell of a new screen once, in any *)
(* style made of the colours Palette and the attributes reverse, bold, dim *)
(* and invalid, or in the default style, and it changes the screen's       *)
(* default style and shows the screen at any time.                         *)

Palette == {"default", "red", "gray", "teal"}

ColorStyles ==
    {[fg |-> fg, bg |-> bg, attr |-> attr] :
        fg \in Palette, bg \in Palette,
        attr \in SUBSET {"reverse", "bold", "dim", "invalid"}}

InitColor == InitDisplay(1, 1, 1, 1, FaceOf({32, 65}, 1), GeoMIdentity)

CallColor ==
    \/ /\ grid[1].Rune = 32
       /\ \E st \in ColorStyles :
             CallPlain("worker", CallOf("SetContent", 0, 0, 65, <<>>, st, <<>>))
    \/ \E st \in {StyleDefault, StyleA, StyleB,
                  [fg |-> "teal", bg |-> "gray", attr |-> {"dim", "reverse"}]} :
          CallPlain("worker", CallOf("SetStyle", 0, 0, 0, <<>>, st, <<>>))
    \/ CallPlain("worker", Plain("Show"))

NextColor ==
    \/ CallColor
    \/ Lock("worker")
    \/ SetContent("worker")
    \/ SetStyle("worker")
    \/ Show("worker")

SpecColor == InitColor /\ [][NextColor]_vars

----------------------------------------------------------------------------
(* SpecCursor: the application moves, hides and restyles the cursor, and   *)
(* the game loop draws into images of up to MaxPix pixels, under a         *)
(* transform that moves the screen by up to MaxShift pixels.               *)

CursorStyles == SteadyCursor \cup {"BlinkingUnderline", "BlinkingBlock", "BlinkingBar"}

CursorCalls ==
    {Plain("HideCursor")}
    \cup {CallOf("ShowCursor", x, y, 0, <<>>, StyleDefault, <<>>) : x \in -1..1, y \in -1..1}
    \cup {[Plain("SetCursorStyle") EXCEPT !.via = cs] : cs \in CursorStyles}

InitCursor ==
    \E c \in 1..MaxCell, tx \in 0..MaxShift, ty \in 0..MaxShift :
       InitDisplay(1, 1, c, c, FaceOf({32, 65}, c), [tx |-> tx, ty |-> ty])

CallCursor == \E f \in CursorCalls : CallPlain("host", f)

CallDrawCursor ==
    \E w \in 1..MaxPix, h \in 1..MaxPix :
       CallPlain("host", CallOf("Draw", w, h, 0, <<>>, StyleDefault, <<>>))

NextCursor ==
    \/ CallCursor
    \/ CallDrawCursor
    \/ Lock("host")
    \/ ShowCursor("host")
    \/ HideCursor("host")
    \/ SetCursorStyle("host")
    \/ Draw("host")
    \/ Draw_blit("host")

SpecCursor == InitCursor /\ [][NextCursor]_vars

----------------------------------------------------------------------------
(* Requests to the fonts.  A request is one step; the fonts take no lock.  *)

\* The state of the fonts becomes fs.
SetFonts(fs) == Cache' = fs.Cache /\ empty' = fs.empty /\ images' = fs.images

\* Whether Glyph(r, style) on the face f is the request that is compared.
IsProbe(f, r, style) == probe.face = f /\ probe.r = r /\ probe.style = style

\* The request Glyph(r, style) on the face f has returned res.
Requested(f, r, style, res) ==
    /\ IsProbe(f, r, style) => probe.calls < MaxProbes
    /\ SetFonts(res.fs)
    /\ probe' = IF IsProbe(f, r, style)
                THEN [probe EXCEPT !.calls = @ + 1,
                                   !.got = @ \cup {[glyph |-> res.glyph,
                                                    is_empty |-> res.is_empty]}]
                ELSE probe
    /\ UNCHANGED <<scr, chv, flg, ctl, rnd, fwd, StyleMap, kbd, seqno>>

\* Glyph(r, style) on a CacheFont or on the MonoFont.
LeafGlyph(f, r, style) ==
    /\ panicked = ""
    /\ Requested(f, r, style, Face_Glyph(FontState, f, r, style))

\* Empty() on a CacheFont or on the MonoFont.
LeafEmpty(f) ==
    /\ panicked = ""
    /\ SetFonts(Empty(FontState, f).fs)
    /\ UNCHANGED <<scr, chv, flg, ctl, rnd, fwd, StyleMap, probe, kbd, seqno>>

\* Glyph(r, style) on the FaceWithBackup.
BackupGlyph(r, style) ==
    /\ panicked = ""
    /\ Requested("backup", r, style, FaceWithBackup_Glyph(FontState, r, style))

\* forStyle panics when no face was found.
StylePanic ==
    /\ panicked' = "FaceWithStyle.StyleMap[FontStyleNormal] does not exist"
    /\ UNCHANGED <<scr, chv, flg, grid_lock, pc, frame, ret, rnd, fwd, fnt, kbd, seqno>>

\* FaceWithStyle.Glyph: fm.forStyle(style).Glyph(character, style).
FaceWithStyle_Glyph(r, style) ==
    /\ panicked = ""
    /\ IF forStyle(style).ok
       THEN Requested("styled", r, style,
                      Face_Glyph(FontState, forStyle(style).face, r, style))
       ELSE StylePanic

\* FaceWithStyle.Metrics, Size and Empty: each asks fm.forStyle(FontStyleNormal);
\* Empty makes the empty image of that face when it has none yet.
FaceWithStyle_Normal(op) ==
    /\ panicked = ""
    /\ IF forStyle("Normal").ok
       THEN /\ SetFonts(IF op = "Empty" THEN Empty(FontState, forStyle("Normal").face).fs
                        ELSE FontState)
            /\ UNCHANGED <<scr, chv, flg, ctl, rnd, fwd, StyleMap, probe, kbd, seqno>>
       ELSE StylePanic

----------------------------------------------------------------------------
(* SpecFont: Glyph and Empty requests, of every rune and in two styles, to *)
(* the two CacheFonts, the MonoFont and the FaceWithBackup.  The results   *)
(* of up to MaxProbes requests with the same face, rune and style are      *)
(* compared.                                                               *)

RequestStyles == {"Normal", "BoldItalic"}

InitFont ==
    /\ InitFields(1, 1, 1, 1, FaceOf({32, 65}, 1), GeoMIdentity)
    /\ \E f \in Leaves \cup {"backup"}, r \in FontRunes, style \in RequestStyles :
          InitFonts(<<>>, [NoProbe EXCEPT !.face = f, !.r = r, !.style = style])

LeafGlyphFont ==
    \E f \in Leaves, r \in FontRunes, style \in RequestStyles : LeafGlyph(f, r, style)

LeafEmptyFont == \E f \in Leaves : LeafEmpty(f)

BackupGlyphFont == \E r \in FontRunes, style \in RequestStyles : BackupGlyph(r, style)

NextFont == LeafGlyphFont \/ LeafEmptyFont \/ BackupGlyphFont

SpecFont == InitFont /\ [][NextFont]_vars

----------------------------------------------------------------------------
(* SpecStyle: requests to a FaceWithStyle whose style map registers any    *)
(* set of styles, each with any of the three fonts.                        *)

StyleRunes == {65, 945}

InitStyle ==
    /\ InitFields(1, 1, 1, 1, FaceOf({32, 65}, 1), GeoMIdentity)
    /\ \E registered \in SUBSET FontStyles :
          \E sm \in [registered -> Leaves], r \in StyleRunes, style \in FontStyles :
             InitFonts(sm, [NoProbe EXCEPT !.face = "styled", !.r = r, !.style = style])

GlyphStyle == \E r \in StyleRunes, style \in FontStyles : FaceWithStyle_Glyph(r, style)

NormalStyle == \E op \in {"Metrics", "Size", "Empty"} : FaceWithStyle_Normal(op)

NextStyle == GlyphStyle \/ NormalStyle

SpecStyle == InitStyle /\ [][NextStyle]_vars

----------------------------------------------------------------------------
(* The claims. *)

OutOfBounds(x, y) == x < 0 \/ y < 0 \/ x >= grid_size.X \/ y >= grid_size.Y

\* C1: SetContent and GetContent at a coordinate outside the grid (x < 0, y < 0,
\* x >= columns or y >= rows) do not fail, leave every cell unchanged, and
\* GetContent returns zero values.
C1_OutOfBoundsIsNoOp ==
    [][\A p \in Procs :
          ( /\ pc[p] = "body"
            /\ frame[p].op \in {"SetContent", "GetContent"}
            /\ OutOfBounds(frame[p].x, frame[p].y)
            /\ pc'[p] # "body" )
          => /\ panicked' = ""
             /\ grid' = grid
             /\ frame[p].op = "GetContent"
                  => /\ ret'[p].r = 0
                     /\ ret'[p].comb = <<>>
                     /\ ret'[p].st = StyleDefault
                     /\ ret'[p].w = 0]_vars

\* A goroutine is waiting in its send because the queue is full.
SendWaitsOnFull(p) ==
    pc[p] = "send" /\ frame[p].ch = "ch" /\ ~chan_closed /\ Len(chan_buf) = QueueCap

\* C2: a PostEvent made while the queue holds 128 events returns without
\* waiting and its event is dropped: no poster ever waits for room, and no event
\* posted to a full queue is ever delivered by PollEvent.
C2_PostOnFullDrops ==
    /\ \A p \in Procs : ~SendWaitsOnFull(p)
    /\ \A p \in Procs : ret[p].op = "PollEvent" => ret[p].ev.x <= QueueCap

\* The event that a step appends to the queue, when it appends one.
Enqueues == Len(chan_buf') = Len(chan_buf) + 1

\* C7: a focus, paste or mouse event is enqueued only while its reporting is
\* enabled; a filtered event leaves the queue unchanged and is no error; key,
\* resize and time-tick events are never filtered.
C7_FilteredAtPost ==
    [][/\ Enqueues =>
            LET ev == chan_buf'[Len(chan_buf')]
            IN  /\ ev.kind = "focus" => enable_focus
                /\ ev.kind = "paste" => enable_paste
                /\ ev.kind = "mouse" => mouse_flags # {}
       /\ \A p \in Procs :
            (pc[p] = "post" /\ event_channel = "ch") =>
               LET ev == Head(frame[p].evs)
                   off == \/ ev.kind = "focus" /\ ~enable_focus
                          \/ ev.kind = "paste" /\ ~enable_paste
                          \/ ev.kind = "mouse" /\ mouse_flags = {}
               IN  /\ (off /\ pc'[p] # "post")
                         => /\ chan_buf' = chan_buf
                            /\ panicked' = ""
                            /\ pc'[p] = "idle" => ret'[p].err = "nil"
                   /\ (ev.kind \in {"key", "resize", "time"} /\ pc'[p] # "post")
                         => pc'[p] = "send"]_vars

\* C7 witness: a PostEvent of a mouse event, made with every mouse flag off,
\* has returned without enqueuing anything.
C7_Witness ==
    /\ ret["host"].op = "PostEvent"
    /\ ret["host"].ev.kind = "mouse"
    /\ ret["host"].n = 0
    /\ mouse_flags = {}
    /\ chan_buf = <<>>

\* C8: an Update tick that is not suspended and returns no close error
\* enqueues at least one event when the queue has room.
C8_TickEnqueues ==
    \A p \in Procs :
       (ret[p].op = "Update" /\ ret[p].err = "nil" /\ ~suspended /\ event_channel = "ch")
          => ret[p].n >= 1

\* C9: an Update tick that finds a stored close error returns exactly that
\* error at once, enqueues nothing and clears the stored error; a tick that
\* finds none returns no error.
C9_CloseErrorConsumedOnce ==
    [][\A p \in Procs :
          (pc[p] = "body" /\ frame[p].op = "Update" /\ pc'[p] # "body")
          => /\ close_error # "nil"
                  => /\ pc'[p] = "idle"
                     /\ ret'[p].err = close_error
                     /\ ret'[p].n = 0
                     /\ chan_buf' = chan_buf
                     /\ close_error' = "nil"
             /\ close_error = "nil"
                  => /\ close_error' = "nil"
                     /\ pc'[p] = "idle" => ret'[p].err = "nil"]_vars

\* C9 witness: a tick has returned the stored error and the error is cleared.
C9_Witness ==
    /\ ret["host"].op = "Update"
    /\ ret["host"].err = "io.EOF"
    /\ close_error = "nil"

\* C10: Layout sets the grid to the whole cells that fit into the offered size
\* and returns the pixels they cover: never more than offered, less than one
\* cell short of it, and equal to it when it is a multiple of the cell size.
C10_LayoutRoundsDown ==
    \A p \in Procs :
       ret[p].op \in {"Layout", "etcell.Layout"} =>
          LET r == ret[p]
          IN  /\ r.sw = grid_size.X * cell_size.X
              /\ r.sh = grid_size.Y * cell_size.Y
              /\ r.sw <= r.x /\ r.x < r.sw + cell_size.X
              /\ r.sh <= r.y /\ r.y < r.sh + cell_size.Y
              /\ r.x % cell_size.X = 0 => r.sw = r.x
              /\ r.y % cell_size.Y = 0 => r.sh = r.y

\* C10 witness: a Layout offered a size that is no multiple of the cell size in
\* either dimension has returned a smaller, non-empty size.
C10_Witness ==
    /\ ret["host"].op \in {"Layout", "etcell.Layout"}
    /\ ret["host"].x % cell_size.X # 0
    /\ ret["host"].y % cell_size.Y # 0
    /\ 0 < ret["host"].sw /\ ret["host"].sw < ret["host"].x
    /\ 0 < ret["host"].sh /\ ret["host"].sh < ret["host"].y

\* Fini has run to its end: the queue is closed and the field is nil.
Finalized == chan_closed /\ event_channel = "nil"

\* C3: once Fini has been called, no PollEvent waits: one that was waiting when
\* Fini ran and one that starts after Fini has returned can both complete.
C3_NoPollWaitsAfterFini ==
    \A p \in Procs : (Finalized /\ pc[p] = "recv") => RecvReady(p)

\* C4: no event is ever sent on the closed queue, in any interleaving of Fini
\* with the posts of Update, Layout and PostEvent.
C4_NoSendOnClosedQueue == panicked # "send on closed channel"

\* C5: the system never reaches a state in which one goroutine waits for queue
\* space while it holds the grid lock and another waits for the grid lock.
C5_NoQueueWaitUnderLock ==
    \A p \in Procs :
       ~( /\ grid_lock = p
          /\ SendWaitsOnFull(p)
          /\ \E q \in Procs \ {p} : pc[q] = "lock" )

\* A goroutine is in a part of a method that reads, writes or reallocates the
\* grid.
AccessesGrid(p) ==
    /\ pc[p] = "body"
    /\ frame[p].op \in {"SetContent", "GetContent", "Fill", "Show", "Sync", "Draw",
                        "Layout", "etcell.Layout.resize"}

\* C6: every operation that reads, writes or reallocates the grid holds the
\* grid lock while it does so, so no two of them access the grid at once.
C6_GridAccessHoldsLock ==
    /\ \A p \in Procs : AccessesGrid(p) => grid_lock = p
    /\ \A p, q \in Procs : (AccessesGrid(p) /\ AccessesGrid(q)) => p = q

\* The calls of Layout, of the game bridge and of the legacy type.
LayoutOps == {"Layout", "etcell.Layout", "etcell.Layout.resize"}

\* The step of p is the body of its call of op.
BodyStep(p, op) == In(p, op) /\ pc'[p] # "body"

\* C11: a Layout that changes the grid dimensions reallocates the grid to zero
\* cells and enqueues exactly one resize event with the new dimensions; a Layout
\* that leaves them unchanged enqueues nothing and leaves every cell as it was.
C11_LayoutResizeEvent ==
    [][\A p \in Procs :
         /\ BodyStep(p, "Layout") =>
               IF grid_size' # grid_size
               THEN /\ grid' = MakeGrid(grid_size'.X * grid_size'.Y)
                    /\ pc'[p] = "post"
                    /\ frame'[p].evs = <<Event("resize", grid_size'.X, grid_size'.Y)>>
               ELSE /\ grid' = grid
                    /\ pc'[p] = "idle" /\ ret'[p].n = 0
                    /\ chan_buf' = chan_buf
         /\ BodyStep(p, "etcell.Layout") =>
               /\ grid' = grid /\ grid_size' = grid_size /\ chan_buf' = chan_buf
               /\ IF <<GoDiv(frame[p].x, cell_size.X), GoDiv(frame[p].y, cell_size.Y)>>
                        = <<grid_size.X, grid_size.Y>>
                  THEN pc'[p] = "idle" /\ ret'[p].n = 0
                  ELSE pc'[p] = "lock"
         /\ BodyStep(p, "etcell.Layout.resize") =>
               /\ grid_size' # grid_size
               /\ grid' = MakeGrid(grid_size'.X * grid_size'.Y)
               /\ pc'[p] = "send"
               /\ frame'[p].evs = <<Event("resize", grid_size'.X, grid_size'.Y)>>
         /\ (frame[p].op \in LayoutOps /\ pc[p] = "post" /\ pc'[p] # "post") =>
               pc'[p] = "send" /\ chan_buf' = chan_buf
         /\ (frame[p].op \in LayoutOps /\ pc[p] = "send" /\ pc'[p] # "send") =>
               /\ chan_buf' = Append(chan_buf, Event("resize", grid_size.X, grid_size.Y))
               /\ pc'[p] = "idle" /\ ret'[p].n = 1
      ]_vars

\* C11 witness: a Layout that changed the grid to more than one cell has
\* returned, the new grid holds only zero cells and the resize event is queued.
C11_Witness ==
    /\ ret["host"].op \in LayoutOps /\ ret["host"].n = 1
    /\ grid_size.X * grid_size.Y > 1
    /\ grid = MakeGrid(grid_size.X * grid_size.Y)
    /\ chan_buf = <<Event("resize", grid_size.X, grid_size.Y)>>

\* C12: in every reachable state the grid has at least one column and one row.
C12_GridAtLeastOneCell == grid_size.X >= 1 /\ grid_size.Y >= 1

\* The numbered events that the queue has accepted: all that were made, but the
\* one whose post is still in progress.
Accepted == seqno - (IF pc["aux"] = "idle" THEN 0 ELSE 1)

\* C13: the queue never holds more than 128 events, it holds the latest accepted
\* events in posting order, and the event PollEvent returned is the one accepted
\* just before them: none is lost, duplicated or reordered.
C13_QueueIsFifo ==
    /\ Len(chan_buf) <= QueueCap
    /\ \A k \in 1..Len(chan_buf) :
          chan_buf[k] = Event("key", Accepted - Len(chan_buf) + k, 0)
    /\ ret["worker"].op = "PollEvent" =>
          ret["worker"].ev = Event("key", Accepted - Len(chan_buf), 0)

\* C13 witness: the second or a later event has been polled and the queue is
\* full again behind it.
C13_Witness ==
    /\ ret["worker"].op = "PollEvent" /\ ret["worker"].ev.x >= 2
    /\ Len(chan_buf) = QueueCap

\* C14: once quit is closed or Fini has closed the queue, the goroutine of
\* ChannelEvents eventually closes ch, unless the program has panicked.
C14_CancelClosesCh == (quit_closed \/ chan_closed) ~> (ch_closed \/ panicked # "")

\* C15: EnableMouse called with no flags turns the reporting of mouse events on,
\* it stays on until DisableMouse is called, and DisableMouse turns it off.
C15_EnableMouseNoFlags ==
    [][\A p \in Procs :
         /\ (BodyStep(p, "EnableMouse") /\ frame[p].comb = <<>>) =>
               (~Filtered(Event("mouse", 0, 0)))'
         /\ BodyStep(p, "DisableMouse") => Filtered(Event("mouse", 0, 0))'
         /\ (~Filtered(Event("mouse", 0, 0))
               /\ \A q \in Procs : ~BodyStep(q, "DisableMouse")) =>
               (~Filtered(Event("mouse", 0, 0)))'
      ]_vars

\* C16: SetContent and Fill change nothing of what Draw draws: a Draw made after
\* such a change, and before the next Show or Sync, draws the same backgrounds
\* and glyphs as a Draw made just before the change, in either blink phase.
C16_ContentHiddenUntilShow ==
    [][(grid' # grid /\ \E p \in Procs : In(p, "SetContent") \/ In(p, "Fill")) =>
          \A blink_phase \in BOOLEAN : Blits(grid', blink_phase) = Blits(grid, blink_phase)
      ]_vars

AllSynced == \A n \in DOMAIN grid : grid[n].synced

\* Every cell is as Fill(' ', tcell.StyleDefault) writes it.
FilledWithSpace ==
    \A n \in DOMAIN grid :
       grid[n].Rune = 32 /\ grid[n].Combining = <<>> /\ grid[n].Style = StyleDefault

\* Every cell's glyph is the face's glyph for the space, in some font style.
AllSpaceGlyphs ==
    \A n \in DOMAIN grid :
       \E fs \in {"Normal", "Bold", "Italic", "BoldItalic"} : grid[n].glyph = Glyph(32, fs)

\* C17 as stated: after Show returns every cell is synced, and after
\* Fill(' ', default style) and Show every cell's glyph is the glyph of the space.
C17_ShowSyncsAll_AsStated ==
    ret["worker"].op = "Show" => AllSynced /\ (FilledWithSpace => AllSpaceGlyphs)

\* C17: after Show returns every cell is synced; after Fill(' ', default style)
\* and Show every cell's glyph is the glyph of the space, when the face can
\* display the space or no fallback is registered for it.
C17_ShowSyncsAll ==
    ret["worker"].op = "Show" =>
       /\ AllSynced
       /\ (FilledWithSpace /\ (CanDisplay(32, FALSE) \/ 32 \notin DOMAIN rune_fallback)) =>
             AllSpaceGlyphs

\* C17 witness: Show has returned on a grid filled with spaces, with a face that
\* has no glyph for the space and no fallback for it: every cell is synced and
\* has the face's empty image, which is its glyph for the space.
C17_Witness ==
    /\ ret["worker"].op = "Show" /\ FilledWithSpace /\ AllSynced
    /\ ~CanDisplay(32, FALSE) /\ 32 \notin DOMAIN rune_fallback
    /\ grid[2].glyph = EmptyGlyph

\* C18: after Sync returns every cell is synced and is resolved against the
\* default style, the fallback table and the face as they are now.
C18_SyncResolvesAll ==
    ret["worker"].op = "Sync" =>
       \A n \in DOMAIN grid :
          grid[n] = Resolve([grid[n] EXCEPT !.synced = FALSE], PointOf(n))

\* C18 witness: Sync has returned after the default style was changed to StyleB:
\* a cell of default style, which an earlier Show had resolved to white on black,
\* has the reversed colours of StyleB.
C18_Witness ==
    /\ ret["worker"].op = "Sync" /\ style_default = StyleB
    /\ grid[2].Style = StyleDefault /\ grid[2].synced
    /\ grid[2].bgColor = e_color_of(RGBOf("blue"))
    /\ \E n \in DOMAIN dst : dst[n].x = 1 /\ dst[n].bg = e_color_of(RGBOf("black"))

\* C19: Show, Sync, Draw and Layout never fail, whatever the grid holds and
\* whatever fallback strings are registered.
C19_RenderIsTotal ==
    \A p \in Procs :
       ~(pc[p] = "panic" /\ frame[p].op \in {"Show", "Sync", "Draw", "Layout"})

\* C20: a Draw made while the cursor position is (-1,-1) draws no cursor pixel
\* into its target image, in every cursor style and blink phase and under every
\* transform.
C20_HiddenCursorNotDrawn ==
    (ret["host"].op = "Draw" /\ cursor = [X |-> -1, Y |-> -1]) => dst_cursor = {}

\* C21: CanDisplay(r, false) is true exactly when the face has a glyph for r that
\* is not its empty image; for a rune the face has no glyph for,
\* CanDisplay(r, true) is true exactly while a fallback is registered for r.
C21_CanDisplayFollowsFallbacks ==
    LET res == ret["worker"]
    IN  res.op = "CanDisplay" =>
           /\ res.x = 0 => (res.n = 1 <=> Glyph(res.r, "Normal") # EmptyGlyph)
           /\ (res.x = 1 /\ Glyph(res.r, "Normal") = EmptyGlyph) =>
                 (res.n = 1 <=> res.r \in DOMAIN rune_fallback)

\* C21 witness: with a fallback registered for 945, which the face has no glyph
\* for, CanDisplay(945, true) has returned true.
C21_Witness ==
    /\ ret["worker"].op = "CanDisplay" /\ ret["worker"].r = 945
    /\ ret["worker"].x = 1 /\ ret["worker"].n = 1
    /\ 945 \in DOMAIN rune_fallback /\ 945 \notin face.runes

\* The runes that the font f has no glyph for.
Lacks(f, r) == r \notin Backend(f)

\* C22: two Glyph requests to a CacheFont or the MonoFont with the same rune and
\* style return the same image; for a rune the font has no glyph for, every
\* request returns the font's Empty() image with is_empty set, and HasGlyph is
\* false for it before and after.
C22_GlyphIsCached ==
    /\ probe.face \in Leaves =>
          /\ Cardinality(probe.got) <= 1
          /\ Lacks(probe.face, probe.r) =>
                \A g \in probe.got :
                   g.is_empty /\ g.glyph = Empty(FontState, probe.face).glyph
    /\ \A f \in Leaves, r \in FontRunes : Lacks(f, r) => ~HasGlyph(FontState, f, r)

\* C22 witness: the MonoFont was asked twice for a rune that its font file does
\* not have: both requests returned its empty image, and the rune is in the cache
\* with the nil image.
C22_Witness ==
    /\ probe.face = "mf" /\ probe.r = 945 /\ probe.calls = 2
    /\ probe.got = {[glyph |-> empty["mf"], is_empty |-> TRUE]}
    /\ empty["mf"] # NilImage
    /\ Cache["mf"][945] = NilImage

\* The style that answers a request for style: the first registered one in the
\* order of the request's row.
Preference(style) ==
    CASE style = "Normal" -> <<"Normal">>
      [] style = "Bold" -> <<"Bold", "Normal">>
      [] style = "Italic" -> <<"Italic", "Normal">>
      [] style = "BoldItalic" -> <<"BoldItalic", "Italic", "Bold", "Normal">>

FirstRegistered(style) ==
    LET row == Preference(style)
        i == CHOOSE i \in DOMAIN row :
                /\ row[i] \in DOMAIN StyleMap
                /\ \A j \in 1..(i - 1) : row[j] \notin DOMAIN StyleMap
    IN  row[i]

C24_NoNormalIsFatal ==
    (probe.face = "styled" /\ "Normal" \notin DOMAIN StyleMap) => probe.got = {}

\* C25: a FaceWithBackup returns the primary font's glyph when the primary font
\* has one, and otherwise what the backup font returns; is_empty is set only
\* when both lack the rune; the same request returns the same image again.
C25_BackupFillsIn ==
    probe.face = "backup" =>
       /\ Cardinality(probe.got) <= 1
       /\ \A g \in probe.got :
             /\ g.is_empty <=> (Lacks("cf", probe.r) /\ Lacks("bf", probe.r))
             /\ ~Lacks("cf", probe.r) => g.glyph = Cache["cf"][probe.r]
             /\ (Lacks("cf", probe.r) /\ ~Lacks("bf", probe.r)) =>
                   g.glyph = Cache["bf"][probe.r]
             /\ (Lacks("cf", probe.r) /\ Lacks("bf", probe.r)) =>
                   g.glyph = empty["bf"]

\* C25 witness: the FaceWithBackup was asked twice for the full block, which
\* only the backup font has, and returned the backup font's glyph.
C25_Witness ==
    /\ probe.face = "backup" /\ probe.r = 9608 /\ probe.calls = 2
    /\ probe.got = {[glyph |-> [face |-> "bf", rune |-> 9608, n |-> 1],
                     is_empty |-> FALSE]}

\* C26: an Update tick made while the screen is suspended enqueues no event,
\* leaves et.focused as it is and posts nothing; a tick made while it is not
\* suspended, and no close error is stored, goes on to post the events of its
\* input: a mouse event when the pointer is inside the layout.
C26_SuspendedTickIdle ==
    [][\A p \in Procs :
          /\ (BodyStep(p, "Update") /\ suspended) =>
                /\ chan_buf' = chan_buf
                /\ focused' = focused
                /\ pc'[p] = "idle" /\ ret'[p].n = 0
          /\ (BodyStep(p, "Update") /\ ~suspended /\ close_error = "nil") =>
                /\ pc'[p] = "post"
                /\ MouseIn(frame[p].x, frame[p].y) =>
                      \E i \in DOMAIN frame'[p].evs : frame'[p].evs[i].kind = "mouse"
      ]_vars

\* C26 witness: a tick with the pointer inside the layout of a suspended,
\* unfocused screen with mouse reporting on has returned, and the queue is empty.
C26_Witness ==
    /\ ret["host"].op = "Update" /\ ret["host"].x = 0 /\ ret["host"].err = "nil"
    /\ suspended /\ ~focused /\ mouse_flags # {}
    /\ chan_buf = <<>>

\* The coordinate is inside the grid.
InBounds(x, y) == 0 <= x /\ x < grid_size.X /\ 0 <= y /\ y < grid_size.Y

\* What GetContent reports of a cell.
Content(c) == <<c.Rune, c.Combining, c.Style>>

\* C27: SetContent at a coordinate inside the grid writes the rune, the
\* combining runes and the style into that cell, clears its synced flag and
\* leaves every other cell as it is; GetContent returns what the cell holds,
\* with width 1; and no step other than SetContent and Fill, Show and Sync
\* included, changes what a cell holds.
C27_SetThenGet ==
    [][/\ \A p \in Procs :
            LET f == frame[p]
                n == f.y * grid_size.X + f.x + 1
            IN  /\ (BodyStep(p, "SetContent") /\ InBounds(f.x, f.y)) =>
                      /\ Content(grid'[n]) = <<f.r, f.comb, f.st>>
                      /\ ~grid'[n].synced
                      /\ \A m \in DOMAIN grid : m # n => grid'[m] = grid[m]
                      /\ DOMAIN grid' = DOMAIN grid
                /\ (BodyStep(p, "GetContent") /\ InBounds(f.x, f.y)) =>
                      /\ <<ret'[p].r, ret'[p].comb, ret'[p].st>> = Content(grid[n])
                      /\ ret'[p].w = 1
       /\ (\A p \in Procs : ~In(p, "SetContent") /\ ~In(p, "Fill")) =>
             /\ DOMAIN grid' = DOMAIN grid
             /\ \A m \in DOMAIN grid : Content(grid'[m]) = Content(grid[m])
      ]_vars

\* C27 witness: GetContent has returned the rune 945 with its combining rune 769
\* from a cell that Show has resolved since it was set.
C27_Witness ==
    /\ ret["worker"].op = "GetContent" /\ ret["worker"].x = 0
    /\ ret["worker"].r = 945 /\ ret["worker"].comb = <<769>> /\ ret["worker"].w = 1
    /\ grid[1].synced /\ grid[1].Rune = 945

\* Focus and mouse reporting are enabled and the tick translates input.
Reporting ==
    /\ enable_focus /\ mouse_flags # {} /\ event_channel = "ch"
    /\ ~suspended /\ close_error = "nil"

\* The focus events among evs, in order.
FocusEvents(evs) == SelectSeq(evs, LAMBDA e : e.kind = "focus")

\* C28: with focus and mouse reporting enabled, a tick that finds the pointer
\* inside the layout while the screen is unfocused posts the focus-gained event
\* and then, next, its mouse event; a tick that finds the pointer outside while
\* the screen is focused posts one focus-lost event; any other tick posts no
\* focus event; and every focus and mouse event that a tick posts is appended to
\* the queue, in the order posted.
C28_FocusFollowsPointer ==
    [][\A p \in Procs :
          LET f == frame[p]
              inside == 0 <= f.x /\ f.x < layout.W /\ 0 <= f.y /\ f.y < layout.H
              evs == frame'[p].evs
          IN  /\ (BodyStep(p, "Update") /\ Reporting) =>
                    /\ (inside /\ ~focused) =>
                          /\ Len(evs) >= 2 /\ pc'[p] = "post"
                          /\ evs[1] = Event("focus", 1, 0)
                          /\ evs[2].kind = "mouse"
                          /\ FocusEvents(evs) = <<Event("focus", 1, 0)>>
                    /\ (~inside /\ focused) =>
                          /\ pc'[p] = "post"
                          /\ FocusEvents(evs) = <<Event("focus", 0, 0)>>
                    /\ (inside <=> focused) =>
                          (pc'[p] = "post" => FocusEvents(evs) = <<>>)
              /\ (f.op = "Update" /\ pc[p] = "post" /\ pc'[p] # "post" /\ Reporting
                     /\ Head(f.evs).kind \in {"focus", "mouse"}) =>
                    pc'[p] = "send"
              /\ (f.op = "Update" /\ pc[p] = "send" /\ pc'[p] # "send") =>
                    chan_buf' = Append(chan_buf, Head(f.evs))
      ]_vars

\* C28 witness: a tick that found the pointer inside while the screen was
\* unfocused has returned, and the queue holds its focus-gained event followed
\* by its mouse event.
C28_Witness ==
    /\ ret["host"].op = "Update" /\ ret["host"].x = 0 /\ pc["host"] = "idle"
    /\ Len(chan_buf) >= 2
    /\ chan_buf[1] = Event("focus", 1, 0) /\ chan_buf[2].kind = "mouse"
    /\ focused

\* C29: Show leaves every cell that is already synced exactly as it is, its
\* resolved colours, point and glyphs included, whatever the default style and
\* the fallback table are now; the cells that it changes were not synced and
\* are synced afterwards.
C29_ShowSkipsSynced ==
    [][\A p \in Procs :
          In(p, "Show") =>
             /\ DOMAIN grid' = DOMAIN grid
             /\ \A n \in DOMAIN grid :
                   /\ grid[n].synced => grid'[n] = grid[n]
                   /\ grid'[n] # grid[n] => ~grid[n].synced /\ grid'[n].synced
      ]_vars

\* C29 witness: Show has returned with the default style changed to StyleB and a
\* fallback registered for 945 since the first cell, which holds 945 in the
\* default style, was resolved: the cell is synced and still has the background
\* and the combining glyph that it got before.
C29_Witness ==
    /\ ret["worker"].op = "Show" /\ pc["worker"] = "idle"
    /\ style_default = StyleB /\ 945 \in DOMAIN rune_fallback
    /\ grid[1].synced /\ grid[1].Rune = 945 /\ grid[1].Style = StyleDefault
    /\ grid[1].bgColor # e_color_of(RGBOf(ResolvedColors(grid[1]).bg))
    /\ Len(grid[1].combining) # Len(ResolvedRunes(grid[1])) - 1

\* The glyphs that the face gives for the runes, in order.
GlyphsOf(runes, fs) == [i \in 1..Len(runes) |-> Glyph(runes[i], fs)]

\* C30: a cell that Show resolves gets, when the face can display its primary
\* rune, the glyph of that rune followed by the glyphs of its combining runes;
\* when the face cannot, the glyphs of the runes of the fallback string
\* registered for the rune, or the space glyph alone when none is registered.
C30_GlyphsOfResolvedCell ==
    [][\A p \in Procs :
          In(p, "Show") =>
             \A n \in DOMAIN grid :
                (n \in DOMAIN grid' /\ ~grid[n].synced /\ grid'[n].synced) =>
                   LET c == grid[n]
                       fs == FontStyleOf(EffectiveAttr(c))
                       glyphs == <<grid'[n].glyph>> \o grid'[n].combining
                   IN  glyphs = IF c.Rune \in face.runes
                                THEN GlyphsOf(<<c.Rune>> \o c.Combining, fs)
                                ELSE IF c.Rune \in DOMAIN rune_fallback
                                THEN GlyphsOf(rune_fallback[c.Rune], fs)
                                ELSE <<Glyph(32, fs)>>
      ]_vars

\* The cell is as Show resolves it under the default style and the fallback
\* table of now.
ResolvedAsNow(c) ==
    /\ c.synced
    /\ ResolvedRunes(c) # <<>>
    /\ Resolve(Unsync(c), c.point) = c

\* C31: what Draw does for a cell follows the attributes that Show resolved the
\* cell with: the glyphs are left out in the blink phase exactly when those
\* attributes have blink, and the underline and the strike-through are drawn
\* exactly when those attributes have them.  Stated for the cells that are
\* resolved under the default style as it is at the Draw.
C31_DrawUsesEffectiveStyle ==
    [][\A p \in Procs :
          (At(p, "blit") /\ pc'[p] # "blit") =>
             LET shown == SelectSeq(grid_draw, LAMBDA c : c.synced)
             IN  \A n \in DOMAIN shown :
                    ResolvedAsNow(shown[n]) =>
                       LET attr == EffectiveAttr(shown[n])
                       IN  /\ Len(dst') = Len(shown)
                           /\ dst'[n].underline = ("underline" \in attr)
                           /\ dst'[n].strike = ("strike" \in attr)
                           /\ "blink" \notin attr => dst'[n].glyphs # <<>>
      ]_vars

\* The cursor is at a cell of the grid.
CursorInGrid ==
    /\ 0 <= cursor.X /\ cursor.X < grid_size.X
    /\ 0 <= cursor.Y /\ cursor.Y < grid_size.Y

\* C32, as stated: with the cursor at a cell of the grid, a Draw draws the
\* cursor at every instant in the default and the steady styles, and in the
\* blinking styles exactly when the clock, modulo the cursor's cycle, is in the
\* first half of the cycle.
C32_CursorOnInFirstHalf_AsStated ==
    [][\A p \in Procs :
          (At(p, "blit") /\ pc'[p] # "blit" /\ CursorInGrid) =>
             LET f == frame[p]
                 full == CursorPixels(f.x, f.y, FALSE)
                 first == (f.now % blink_cursor_ms) < (blink_cursor_ms \div 2)
             IN  full # {} =>
                    IF cursor_style \in SteadyCursor
                    THEN dst_cursor' = full
                    ELSE /\ first => dst_cursor' = full
                         /\ ~first => dst_cursor' = {}
      ]_vars

\* C32: with the cursor at a cell of the grid, a Draw draws the cursor at every
\* instant in the default and the steady styles, and in the blinking styles
\* exactly when the clock, modulo the cursor's cycle, is in the second half of
\* the cycle; it draws none in the first half.
C32_CursorOnInSecondHalf ==
    [][\A p \in Procs :
          (At(p, "blit") /\ pc'[p] # "blit" /\ CursorInGrid) =>
             LET f == frame[p]
                 full == CursorPixels(f.x, f.y, FALSE)
                 first == (f.now % blink_cursor_ms) < (blink_cursor_ms \div 2)
             IN  full # {} =>
                    IF cursor_style \in SteadyCursor
                    THEN dst_cursor' = full
                    ELSE /\ first => dst_cursor' = {}
                         /\ ~first => dst_cursor' = full
      ]_vars

\* C32 witness: a Draw under the identity transform has returned with the
\* cursor at the first cell in the blinking block style, and it drew no cursor.
C32_Witness ==
    /\ ret["host"].op = "Draw" /\ pc["host"] = "idle"
    /\ cursor_style = "BlinkingBlock" /\ cursor = [X |-> 0, Y |-> 0]
    /\ GeoM = GeoMIdentity
    /\ dst_cursor = {}

\* C33: a key that has been down for d ticks fires at d = 1, not for
\* 1 < d < delay, and for d >= delay exactly when d - delay is a multiple of
\* interval, where delay and interval are the whole ticks in half a second and
\* in a twentieth of a second at the tick rate of the tick, or 30 and 3 when a
\* twentieth of a second has no whole tick.
C33_KeyRepeatTiming ==
    [][\A p \in Procs :
          (BodyStep(p, "Update") /\ kbd.pressed # <<>> /\ ~suspended
             /\ close_error = "nil") =>
             LET d == kbd.pressed[1].d
                 degenerate == kbd.tps \div 2000 = 0
                 delay == IF degenerate THEN 30 ELSE kbd.tps \div 200
                 interval == IF degenerate THEN 3 ELSE kbd.tps \div 2000
                 fired == /\ pc'[p] = "post"
                          /\ \E i \in DOMAIN frame'[p].evs : frame'[p].evs[i].kind = "key"
             IN  /\ d = 1 => fired
                 /\ (1 < d /\ d < delay) => ~fired
                 /\ d >= delay => (fired <=> (d - delay) % interval = 0)
      ]_vars

\* C33 witness: at 60 ticks per second the key has been down for 33 ticks, one
\* interval after the delay, and the tick has enqueued its key event.
C33_Witness ==
    /\ ret["host"].op = "Update" /\ pc["host"] = "idle"
    /\ kbd.tps = 6000 /\ kbd.pressed # <<>> /\ kbd.pressed[1].d = 33
    /\ chan_buf # <<>> /\ chan_buf[Len(chan_buf)] = KeyEvent(<<"KeyUp", 0>>, 0, {})

\* The events of evs whose key is of the kind named.
KeysNamed(evs, names) ==
    SelectSeq(evs, LAMBDA e : e.kind = "key" /\ e.x[1][1] \in names)

\* C34: a tick with the pointer inside the layout posts, while Ctrl is held,
\* one event per letter key that is just pressed or repeating, with the key
\* Ctrl+letter, rune 0 and the modifiers without Ctrl, and no rune event;
\* without Ctrl it posts one rune event per typed character, in order, with the
\* modifiers without Shift, and no Ctrl+letter event; in both cases it posts one
\* event per firing key of the key table, with all the modifiers; and every key
\* event posted is appended to the queue.
C34_KeyEvents ==
    [][\A p \in Procs :
          LET f == frame[p]
              inside == 0 <= f.x /\ f.x < layout.W /\ 0 <= f.y /\ f.y < layout.H
              evs == IF pc'[p] = "post" THEN frame'[p].evs ELSE <<>>
              firing == SelectSeq(kbd.pressed, LAMBDA e : e.d = 1)
              letters == SelectSeq(firing, LAMBDA e : e.key[1] = "KeyA")
              tabled == SelectSeq(firing, LAMBDA e : e.key[1] = "KeyArrowUp")
              ctrl == "Ctrl" \in kbd.mods
          IN  /\ (BodyStep(p, "Update") /\ inside /\ ~suspended /\ close_error = "nil") =>
                    /\ KeysNamed(evs, {"KeyCtrlA"}) =
                          IF ctrl
                          THEN [i \in 1..Len(letters) |->
                                  KeyEvent(<<"KeyCtrlA", letters[i].key[2]>>, 0,
                                           kbd.mods \ {"Ctrl"})]
                          ELSE <<>>
                    /\ KeysNamed(evs, {"KeyRune"}) =
                          IF ctrl THEN <<>>
                          ELSE [i \in 1..Len(kbd.chars) |->
                                  KeyEvent(<<"KeyRune", 0>>, kbd.chars[i],
                                           kbd.mods \ {"Shift"})]
                    /\ KeysNamed(evs, {"KeyUp"}) =
                          [i \in 1..Len(tabled) |-> KeyEvent(<<"KeyUp", 0>>, 0, kbd.mods)]
                    /\ Len(SelectSeq(evs, LAMBDA e : e.kind = "key")) =
                          Len(KeysNamed(evs, {"KeyCtrlA", "KeyRune", "KeyUp"}))
              /\ (f.op = "Update" /\ pc[p] = "post" /\ pc'[p] # "post"
                     /\ Head(f.evs).kind = "key" /\ event_channel = "ch") =>
                    pc'[p] = "send"
              /\ (f.op = "Update" /\ pc[p] = "send" /\ pc'[p] # "send") =>
                    chan_buf' = Append(chan_buf, Head(f.evs))
      ]_vars

\* C34 witness: a tick with Ctrl and Shift held, the keys A and ArrowUp just
\* pressed and a character typed has returned; the queue holds Ctrl+A with Shift
\* alone and then Up with both modifiers, and no rune event.
C34_Witness ==
    /\ ret["host"].op = "Update" /\ pc["host"] = "idle"
    /\ kbd.mods = {"Ctrl", "Shift"} /\ kbd.chars = <<97>>
    /\ chan_buf = <<KeyEvent(<<"KeyCtrlA", 0>>, 0, {"Shift"}),
                    KeyEvent(<<"KeyUp", 0>>, 0, {"Ctrl", "Shift"})>>

\* The cell (cx, cy) of the grid holds the pixel (x, y).
CellHolds(cx, cy, x, y) ==
    /\ 0 <= cx /\ cx < grid_size.X /\ 0 <= cy /\ cy < grid_size.Y
    /\ cx * cell_size.X <= x /\ x < (cx + 1) * cell_size.X
    /\ cy * cell_size.Y <= y /\ y < (cy + 1) * cell_size.Y

C36_ResolvedColours ==
    [][\A p \in Procs :
          In(p, "Show") =>
             \A n \in DOMAIN grid :
                (n \in DOMAIN grid' /\ ~grid[n].synced /\ grid'[n].synced) =>
                   LET c == grid[n]
                       st == IF c.Style = StyleDefault THEN style_default ELSE c.Style
                       attr == IF "invalid" \in st.attr THEN {} ELSE st.attr
                       fg0 == RGBOf(IF st.fg = "default" THEN "white" ELSE st.fg)
                       bg0 == RGBOf(IF st.bg = "default" THEN "black" ELSE st.bg)
                       fg1 == IF "reverse" \in attr THEN bg0 ELSE fg0
                       bg1 == IF "reverse" \in attr THEN fg0 ELSE bg0
                       fg2 == IF "bold" \in attr
                              THEN [i \in 1..3 |-> IF 2 * fg1[i] > 255 THEN 255
                                                   ELSE 2 * fg1[i]]
                              ELSE fg1
                       fg3 == IF "dim" \in attr THEN [i \in 1..3 |-> fg2[i] \div 2]
                              ELSE fg2
                   IN  /\ grid'[n].fgColor = <<fg3[1], fg3[2], fg3[3], 255>>
                       /\ grid'[n].bgColor = <<bg1[1], bg1[2], bg1[3], 255>>
                       /\ \A i \in 1..4 : /\ grid'[n].fgColor[i] \in 0..255
                                          /\ grid'[n].bgColor[i] \in 0..255
      ]_vars

\* C36 witness: Show has resolved a cell written in teal on red with reverse,
\* bold and dim: the foreground is the red doubled, held at 255, and halved, the
\* background the teal unchanged.
C36_Witness ==
    /\ ret["worker"].op = "Show"
    /\ grid[1].synced
    /\ grid[1].Style = [fg |-> "teal", bg |-> "red", attr |-> {"reverse", "bold", "dim"}]
    /\ grid[1].fgColor = <<127, 0, 0, 255>>
    /\ grid[1].bgColor = <<0, 128, 128, 255>>

\* C37: Draw copies the grid into grid_draw while it holds grid_lock; no step
\* of another call changes grid_draw, whatever it does to the grid; and Draw
\* blits the cells that are synced in grid_draw, and only them, with the colours
\* and the glyphs that they have there.
C37_DrawFromSnapshot ==
    [][/\ \A p \in Procs :
            /\ (In(p, "Draw") /\ pc'[p] = "blit") =>
                  grid_lock = p /\ grid_draw' = grid
            /\ (At(p, "blit") /\ pc'[p] # "blit") =>
                  LET shown == SelectSeq(grid_draw, LAMBDA c : c.synced)
                  IN  /\ Len(dst') = Len(shown)
                      /\ \A n \in DOMAIN shown :
                            /\ dst'[n].bg = shown[n].bgColor
                            /\ dst'[n].fg = shown[n].fgColor
                            /\ dst'[n].glyphs \in
                                  {<<>>, SelectSeq(<<shown[n].glyph>> \o shown[n].combining,
                                                   LAMBDA g : g # NilGlyph)}
       /\ (\A p \in Procs : ~In(p, "Draw")) => grid_draw' = grid_draw
      ]_vars

\* C37 witness: Draw has taken its snapshot and not yet drawn, and a Show of the
\* application has since resolved a cell that the snapshot holds unsynced, so
\* that the grid would be drawn differently from the snapshot.
C37_Witness ==
    /\ pc["host"] = "blit" /\ frame["host"].op = "Draw"
    /\ ret["worker"].op = "Show"
    /\ \E n \in DOMAIN grid_draw :
          n \in DOMAIN grid /\ ~grid_draw[n].synced /\ grid[n].synced
    /\ Blits(grid, FALSE) # Blits(grid_draw, FALSE)

\* C38: a Draw never takes its snapshot between the step of a Sync that marks
\* the cells unsynced and the Show of that Sync that resolves them again: in
\* the grid that Draw copies while a Sync is under way, every cell that had been
\* resolved before the Sync (it still holds its resolved colours) is synced.
C38_SyncAtomicForDraw ==
    [][\A p \in Procs :
          (In(p, "Draw") /\ pc'[p] = "blit") =>
              \A q \in Procs \ {p} :
                  frame[q].via = "Sync" =>
                      \A n \in DOMAIN grid :
                          grid[n].bgColor # ZeroRGBA => grid_draw'[n].synced
      ]_vars

\* The focus events that are queued or that the tick under way has still to
\* post, in the order of their delivery.
FocusInFlight ==
    FocusEvents(chan_buf \o (IF pc["host"] \in {"post", "send"} THEN frame["host"].evs
                             ELSE <<>>))

\* No two neighbours of evs have the same value.
Alternating(evs) == \A i \in 1..(Len(evs) - 1) : evs[i].x # evs[i + 1].x

\* C39: with focus reporting on and the queue never full, the focus events come
\* out of PollEvent alternating, focus-gained first.  The screen starts
\* unfocused; a tick posts at most one focus event, and only one that reverses
\* et.focused, which nothing else changes; a posted focus event is queued
\* behind the earlier events and PollEvent returns the oldest event; so the
\* focus events not yet delivered alternate and end with the value of
\* et.focused, and the first of them differs from the focus event that
\* PollEvent returned last.
C39_FocusEventsAlternate ==
    /\ ~focused
    /\ [](/\ Alternating(FocusInFlight)
          /\ FocusInFlight # <<>> =>
                FocusInFlight[Len(FocusInFlight)].x = (IF focused THEN 1 ELSE 0)
          /\ (ret["worker"].op = "PollEvent" /\ ret["worker"].ev.kind = "focus"
                 /\ FocusInFlight # <<>>) =>
                FocusInFlight[1].x # ret["worker"].ev.x)
    /\ [][/\ \A p \in Procs :
               /\ (In(p, "Update") /\ pc'[p] # "body") =>
                     LET evs == IF pc'[p] = "post" THEN FocusEvents(frame'[p].evs) ELSE <<>>
                     IN  /\ Len(evs) <= 1
                         /\ evs = <<>> => focused' = focused
                         /\ evs # <<>> =>
                               /\ focused' # focused
                               /\ evs[1].x = (IF focused' THEN 1 ELSE 0)
               /\ (At(p, "post") /\ frame[p].op = "Update" /\ pc'[p] # "post"
                      /\ Head(frame[p].evs).kind = "focus") =>
                     pc'[p] = "send"
               /\ (At(p, "send") /\ pc'[p] # "send") =>
                     chan_buf' = Append(chan_buf, Head(frame[p].evs))
               /\ (At(p, "recv") /\ pc'[p] # "recv") =>
                     /\ ret'[p].ev = Head(chan_buf)
                     /\ chan_buf' = Tail(chan_buf)
          /\ (\A p \in Procs : ~In(p, "Update")) => focused' = focused
         ]_vars

\* C39 witness: PollEvent has just returned a focus-lost event, which the
\* focus-gained event of an earlier tick preceded, and the queue holds the next
\* three focus events: gained, lost and gained.
C39_Witness ==
    /\ pc["worker"] = "idle" /\ ret["worker"].op = "PollEvent"
    /\ ret["worker"].ev = Event("focus", 0, 0)
    /\ chan_buf = <<Event("focus", 1, 0), Event("focus", 0, 0), Event("focus", 1, 0)>>
    /\ focused

====
